---- MODULE Spec2Model ----
(***************************************************************************)
(* Model of the WebUSB device communication layer of wavelet-lab/websdr:   *)
(*   - CircularBuffer (core/utils/circularbuffer.ts)                       *)
(*   - WebUsb command queue: sendCommand / runCommandPool / _sendCommand   *)
(*   - ControlWebUsb.sendCommand: the stream-status protocol               *)
(*   - WebUsb TX pipeline: sendTxRawPacket / _sendTxPacket                 *)
(*                                                                         *)
(* JavaScript runs every synchronous segment of a handler to completion;   *)
(* an `await` ends the segment.  Each action below is one such segment,    *)
(* and segments of different handlers interleave in any order.             *)
(***************************************************************************)
EXTENDS Integers, Sequences, FiniteSets, TLC

(***************************************************************************)
(* Bounds of the model.                                                    *)
(***************************************************************************)
\* number of WebUsb.sendCommand calls made on the session (SpecCmd)
NumCmds == 3
\* number of ControlWebUsb.sendCommand calls made on the session (SpecStream)
NumCallers == 2
\* number of sendTxRawPacket calls made on the session
NumTx == 4
\* WebUsb.MAX_SEND_DATA_REQUEST is a mutable static (128 by default, the
\* tests configure 2): the configured maximum C of outstanding TX requests
MAX_SEND_DATA_REQUEST == 2

\* ControlWebUsb.SET_PARAMETER_TIMEOUT is a mutable static (250 ms by
\* default): the debounce window, in clock ticks
SET_PARAMETER_TIMEOUT == 3
\* number of parameter keys setParameter is called with
NumKeys == 2
\* number of setParameter calls made on the ControlWebUsb (SpecParam)
NumParmCalls == 3
\* the last clock value SpecParam follows
MaxTime == 10

\* number of facade operations called on the WebUsbWorkerManager
NumOps == 2
\* number of Worker objects the manager creates (the first by its constructor)
MaxWorkers == 3
\* number of startWorker calls made to restart the worker
NumRestarts == 1
\* number of messages of arbitrary content delivered to onWorkerMessage (SpecMsg)
MaxStray == 2

\* number of messages the worker context receives (SpecRegistry)
NumMsgs == 4
\* number of supported (vendor id, product id) identities opened
NumDevs == 2

\* number of decodeRxData calls made on the session (SpecDecode)
NumDecodes == 2
\* the sample counts 0..MaxSmallSamples are passed to the packet size functions
MaxSmallSamples == 6
\* ... and the sample counts this close to the points where the sizes step
SpanSamples == 2

\* capacity of the CircularBuffer of SpecRing, and the values pushed into it
RingLen == 3
NumVals == 2

\* number of ControlWebUsb.sendCommand calls of SpecRequest
NumReqCalls == 2

\* number of WebUsb.sendCommand calls made on a full command queue (SpecCmdFull)
NumOverflow == 1

\* number of WebUsb.sendTxPacket calls of SpecTxPacket
NumSub == 3

(***************************************************************************)
(* Program constants.                                                      *)
(***************************************************************************)
\* new CircularBuffer<CommandRequest>(100)
COMMANDS_LEN == 100

\* core/common/defines.ts
COMPLEX_INT16_SIZE == 4
\* WebUsbWsdr (variant A)
MAX_PACKET_SIZE == 1048575
PACKET_ALIGN_MASK == 511
MAX_PACKET_MASK == MAX_PACKET_SIZE - PACKET_ALIGN_MASK
HEADER_SIZE == 16
TRAILER_SIZE == 8
EXTRA_RX_DATA == 512 + 2048
MIN_SAMPLES_IN_PKT == 128
MAX_SAMPLES_IN_PKT == 8192
\* WebUsbLimeSdr (variant B); its HEADER_SIZE is 16 as well
PACKET_SIZE == 4096
SAMPLES_PER_PACKET == (PACKET_SIZE - HEADER_SIZE) \div COMPLEX_INT16_SIZE

CmdReqs == 1..NumCmds
Callers == 1..NumCallers
TxCalls == 1..NumTx
ParmKeys == 1..NumKeys
WorkerIds == 1..MaxWorkers
\* every correlation id the manager can allocate within the bounds
MaxId == NumOps + 2 * MaxWorkers

\* an empty slot of the ring (`undefined`)
Undefined == 0

\* the commands ControlWebUsb.sendCommand distinguishes; OTHER stands for
\* every command that is not a streaming command
Cmds == {"START_STREAMING", "STOP_STREAMING", "CONTROL_STREAMING", "OTHER"}

StreamStatus == {"INVALID", "STOPPED", "STARTED", "PREPARED", "PENDING"}

\* what one native send_command round trip can produce:
\*   ok       - returns 0, the reply JSON has no `error` field
\*   errfield - returns 0, the reply JSON has an `error` field
\*   nonzero  - returns a non-zero code
\*   throw    - the call (or the parse of its reply) throws
NativeOutcomes == {"ok", "errfield", "nonzero", "throw"}

VARIABLES
    \* ---- WebUsb (one device session) ----
    commands,               \* _commands: the CircularBuffer of command requests
    sendCommandInProcess,   \* _sendCommandInProcess
    device,                 \* this.device is defined
    streamStatus,           \* streamStatus
    pool,                   \* the runCommandPool coroutine started by each sendCommand
    settled,                \* state of the promise returned by sendCommand, per request
    \* ---- ControlWebUsb.sendCommand callers ----
    cpc,                    \* position of each call
    cmd,                    \* the command of each call
    obs,                    \* the stream status the call last read
    \* ---- observation of the wire ----
    sent,                   \* requests passed to WebUsb.sendCommand, in order
    issued,                 \* requests passed to the native send_command, in order
    replied,                \* outcome of the first native round trip of each request
    \* ---- TX pipeline ----
    sendDataReqCnt,         \* _sendDataReqCnt
    onChangeSendDataReq,    \* _onChangeSendDataReq: the call whose waiter is registered
    tpc,                    \* position of each sendTxRawPacket call
    allowDrop,              \* the allowDrop argument of each call
    inCnt,                  \* this.in
    outCnt,                 \* this.out
    \* ---- ControlWebUsb.setParameter ----
    clock,                  \* Date.now()
    changeParmTimers,       \* _changeParmTimers: key -> {timer, lastTime}, or no entry
    parmCalls,              \* number of setParameter calls made (call n carries args n)
    parmSent,               \* the sendCommand calls made by setParameterNow, in order
    lastDeferred,           \* per key, the args of the last call that was not sent at once
    \* ---- WebUsbWorkerManager (remote mode) ----
    worker,                 \* this.worker: the current Worker, or Undefined
    restarts,               \* number of startWorker calls made to restart the worker
    workers,                \* number of Worker objects created so far
    listening,              \* the workers that carry the manager's message listener
    terminated,             \* the workers terminate() was called on
    promiseMapId,           \* PromiseHelper._promiseMapId
    promiseMap,             \* PromiseHelper._promiseMap: id -> request (Undefined: no entry)
    requests,                   \* every promise created: id, type, worker posted to, state
    callLog,                \* the facade operations called, with what each call did
    openWait,               \* open() calls awaiting the startWorker promise they started
    \* ---- the workers ----
    wposted,                \* per worker, the request messages posted to it, in order
    taken,                  \* per worker, how many of them its onmessage has received
    busy,                   \* per worker, the received requests whose handler is awaiting
    wlog,                   \* per worker, the responses it has posted, in order
    delivered,              \* per worker, how many responses the manager has received
    strayCnt,               \* number of messages of arbitrary content delivered
    lastMsg,                \* the message onWorkerMessage handled last
    \* ---- the worker context: self.onmessage and WebUsbDeviceManager ----
    webUsbDeviceManager,    \* globalThis.webUsbDeviceManager is defined
    webUsbDevices,          \* WebUsbDeviceManager.webUsbDevices: slot -> session, or Undefined
    sessions,               \* every WebUsb instance created: identity, fd, life cycle
    hpending,               \* the handlers suspended at an await
    hcount,                 \* number of messages received
    lastReq,                \* the message whose handler ran last
    hposted,                \* the responses that handler posted in its last step
    \* ---- WebUsb.close on the session of the command queue ----
    sfd,                    \* this.fd
    observers,              \* the connect/disconnect listeners are registered
    closePc,                \* position of the close() call
    \* ---- the packet codec of a session ----
    variant,                \* "A": WebUsbWsdr, "B": WebUsbLimeSdr
    timestamp,              \* WebUsbWsdr._timestamp
    lastRecvTimestamp,      \* WebUsbLimeSdr._lastRecvTimestamp
    rxLog,                  \* the decodeRxData calls made, with their results
    sizes,                  \* the packet sizes computed last, for two sample counts
    hdr,                    \* the _fillHeader call made last, with the header written
    \* ---- a CircularBuffer on its own ----
    ring,                   \* the buffer: _bufferLen, _buffer, _bufferHead, _bufferTail, _bufferFull
    ringOp,                 \* the operation applied to it last, with its argument
    \* ---- ControlWebUsb: the request of one command of the catalog ----
    Requests,               \* ControlWebUsb.Requests[cmd], the static template object
    callArgs,               \* args and ext_args of every ControlWebUsb.sendCommand call
    wire,                   \* the requests serialised for the native call (req_str)
    \* ---- the TX encoder of a session ----
    encoded,                \* the encodeTxData call made last, with the headers written
    txSub                   \* the sendTxPacket calls made: input, encode outcome, raw call

cmdVars == <<commands, sendCommandInProcess, device, streamStatus, pool, settled,
             cpc, cmd, obs, sent, issued, replied>>
txVars == <<sendDataReqCnt, onChangeSendDataReq, tpc, allowDrop, inCnt, outCnt>>
parmVars == <<clock, changeParmTimers, parmCalls, parmSent, lastDeferred>>
wrkVars == <<worker, restarts, workers, listening, terminated, promiseMapId, promiseMap, requests,
             callLog, openWait, wposted, taken, busy, wlog, delivered, strayCnt, lastMsg>>
regVars == <<webUsbDeviceManager, webUsbDevices, sessions, hpending, hcount, lastReq, hposted>>
sessVars == <<sfd, observers, closePc>>
codecVars == <<variant, timestamp, lastRecvTimestamp, rxLog, sizes, hdr>>
ringVars == <<ring, ringOp>>
reqVars == <<Requests, callArgs, wire>>
encVars == <<encoded, txSub>>
moreVars == <<ringVars, reqVars, encVars>>
extVars == <<regVars, sessVars, codecVars, moreVars>>
vars == <<cmdVars, txVars, parmVars, wrkVars, extVars>>

(***************************************************************************)
(* CircularBuffer                                                          *)
(***************************************************************************)
CircularBuffer(len) ==
    [len |-> len, buf |-> [i \in 0..(len - 1) |-> Undefined],
     head |-> 0, tail |-> 0, full |-> FALSE]

size(q) ==
    IF q.full THEN q.len
    ELSE IF q.head <= q.tail THEN q.tail - q.head
    ELSE q.tail + q.len - q.head

isEmpty(q) == q.head = q.tail /\ ~q.full

front(q) == q.buf[q.head]

pop_front(q, cnt) ==
    IF cnt < 1 THEN q
    ELSE LET cntBiggerSize == cnt >= size(q)
             h == (q.head + cnt) % q.len
         IN [q EXCEPT !.head = h,
                      !.tail = IF cntBiggerSize THEN h ELSE q.tail,
                      !.full = FALSE]

push_back(q, val) ==
    LET q1 == IF q.full THEN pop_front(q, 1) ELSE q
        t == (q1.tail + 1) % q1.len
    IN [q1 EXCEPT !.buf[q1.tail] = val,
                  !.tail = t,
                  !.full = (q1.head = t)]

\* the contents front-to-back
RECURSIVE contentsFrom(_, _, _)
contentsFrom(q, i, n) ==
    IF n = 0 THEN <<>>
    ELSE <<q.buf[i]>> \o contentsFrom(q, (i + 1) % q.len, n - 1)
contents(q) == contentsFrom(q, q.head, size(q))

pop_back(q, cnt) ==
    IF cnt < 1 THEN q
    ELSE LET cntBiggerSize == cnt >= size(q)
             c == cnt % q.len
             t == IF q.tail - c < 0 THEN q.len - (c - q.tail) ELSE q.tail - c
         IN [q EXCEPT !.tail = t,
                      !.head = IF cntBiggerSize THEN t ELSE q.head,
                      !.full = FALSE]

\* mutant: a push onto a full buffer evicts nothing
push_front_keep(q, val) ==
    LET h == IF q.head - 1 < 0 THEN q.len - 1 ELSE q.head - 1
    IN [q EXCEPT !.buf[h] = val, !.head = h, !.full = (h = q.tail)]

push_front(q, val) ==
    LET q1 == IF q.full THEN pop_back(q, 1) ELSE q
        h == IF q1.head - 1 < 0 THEN q1.len - 1 ELSE q1.head - 1
    IN [q1 EXCEPT !.head = h,
                  !.full = (h = q1.tail),
                  !.buf[h] = val]

\* the last operation applied to the buffer `ring`
NoOp == [op |-> "new", arg |-> 0]

(***************************************************************************)
(* WebUsb: command queue                                                   *)
(***************************************************************************)
NoPool == [pc |-> "none", req |-> Undefined, rep |-> "none"]

\* _sendCommand, up to its await of the native call.  Sets the flag; without
\* a device it returns {error: -1} at once (the flag stays set), otherwise
\* the native call is issued.
sendCommandIssue(p, req) ==
    /\ sendCommandInProcess' = TRUE
    /\ IF ~device
       THEN /\ pool' = [pool EXCEPT ![p] = [pc |-> "ret", req |-> req, rep |-> "errfield"]]
            /\ UNCHANGED issued
       ELSE /\ pool' = [pool EXCEPT ![p] = [pc |-> "ccall", req |-> req, rep |-> "none"]]
            /\ issued' = Append(issued, req)

\* the while loop of runCommandPool, entered with the queue q: either the
\* queue is empty and the pool ends, clearing the flag, or the front request
\* is handed to _sendCommand
commandPoolLoop(p, q) ==
    IF isEmpty(q)
    THEN /\ sendCommandInProcess' = FALSE
         /\ pool' = [pool EXCEPT ![p] = [pc |-> "done", req |-> Undefined, rep |-> "none"]]
         /\ UNCHANGED issued
    ELSE sendCommandIssue(p, front(q))

\* runCommandPool as called by sendCommand: returns at once when the flag is set
runCommandPool(p, q) ==
    IF sendCommandInProcess
    THEN UNCHANGED <<sendCommandInProcess, pool, issued>>
    ELSE commandPoolLoop(p, q)

\* WebUsb.sendCommand(req): push_back, runCommandPool
WebUsbSendCommand(c) ==
    /\ commands' = push_back(commands, c)
    /\ sent' = Append(sent, c)
    /\ runCommandPool(c, commands')

\* a promise continuation (a microtask) of the command layer is ready to run
CmdMicrotaskPending ==
    \/ \E p \in DOMAIN pool : pool[p].pc \in {"parse", "ret"}
    \/ \E c \in DOMAIN cpc : cpc[c] \in {"poll", "check", "pending_set"}
    \/ \E c \in DOMAIN cpc : (cpc[c] = "reply" /\ settled[c] # "pending")

\* the native call of pool p returns: the rest of _sendCommand up to its
\* next await or its return.  The completion of the USB round trip is a task
\* of the event loop: it runs when no promise continuation is pending.
NativeReturn(p, outcome) ==
    /\ pool[p].pc = "ccall"
    /\ ~CmdMicrotaskPending
    /\ replied' = IF replied[pool[p].req] = "none"
                  THEN [replied EXCEPT ![pool[p].req] = outcome] ELSE replied
    /\ CASE outcome = "nonzero" ->
              \* ret = {error: res}; the flag is cleared; return
              /\ pool' = [pool EXCEPT ![p].pc = "ret", ![p].rep = "nonzero"]
              /\ sendCommandInProcess' = FALSE
         [] outcome \in {"ok", "errfield"} ->
              \* ret = await JSON.parse(out_res_str)
              /\ pool' = [pool EXCEPT ![p].pc = "parse", ![p].rep = outcome]
              /\ UNCHANGED sendCommandInProcess
         [] outcome = "throw" ->
              \* the exception leaves _sendCommand; the flag stays set
              /\ pool' = [pool EXCEPT ![p].pc = "ret", ![p].rep = "throw"]
              /\ UNCHANGED sendCommandInProcess
    /\ UNCHANGED <<commands, device, streamStatus, settled, cpc, cmd, obs, sent, issued>>
    /\ UNCHANGED txVars

\* _sendCommand after `await JSON.parse`: frees its buffers, clears the flag, returns
ParseDone(p) ==
    /\ pool[p].pc = "parse"
    /\ pool' = [pool EXCEPT ![p].pc = "ret"]
    /\ sendCommandInProcess' = FALSE
    /\ UNCHANGED <<commands, device, streamStatus, settled, cpc, cmd, obs, sent, issued, replied>>
    /\ UNCHANGED txVars

\* the reply rejects the request: it has an error field ({error: res} for a
\* non-zero return code) or the call threw
replyRejects(rep) == rep \in {"errfield", "nonzero", "throw"}

\* settling a promise: only a pending promise changes state
settle(s, req, rep) ==
    IF s[req] # "pending" THEN s
    ELSE [s EXCEPT ![req] = IF replyRejects(rep) THEN "rejected" ELSE "resolved"]

\* runCommandPool resumes after `await this._sendCommand(...)`: the request's
\* continuation is settled, the front of the queue is popped, the loop goes on
PoolResume(p) ==
    /\ pool[p].pc = "ret"
    /\ settled' = settle(settled, pool[p].req, pool[p].rep)
    /\ commands' = pop_front(commands, 1)
    /\ commandPoolLoop(p, commands')
    /\ UNCHANGED <<device, streamStatus, cpc, cmd, obs, sent, replied>>
    /\ UNCHANGED txVars

(***************************************************************************)
(* ControlWebUsb.sendCommand: the stream-status protocol                   *)
(***************************************************************************)
\* cmd === 'START_STREAMING' || cmd === 'STOP_STREAMING' ||
\* (cmd === 'CONTROL_STREAMING' && args.param === 0)
isStreamingCmd(k) == k \in {"START_STREAMING", "STOP_STREAMING", "CONTROL_STREAMING"}

\* mutant: no status counts as the command's target
alreadyInTarget_never(status, k) == FALSE

\* the status already matches the command's target: the command is skipped
alreadyInTarget(status, k) ==
    \/ status = "STARTED" /\ k = "CONTROL_STREAMING"
    \/ status = "PREPARED" /\ k = "START_STREAMING"
    \/ status = "STOPPED" /\ k = "STOP_STREAMING"

\* mutant: the targets of START_STREAMING and CONTROL_STREAMING are swapped
statusAfterReply_swapped(k) ==
    CASE k = "START_STREAMING" -> "STARTED"
      [] k = "STOP_STREAMING" -> "STOPPED"
      [] k = "CONTROL_STREAMING" -> "PREPARED"

\* the status set after a reply without an error field
statusAfterReply(k) ==
    CASE k = "START_STREAMING" -> "PREPARED"
      [] k = "STOP_STREAMING" -> "STOPPED"
      [] k = "CONTROL_STREAMING" -> "STARTED"

\* the status written when the awaited command settles: a resolved promise
\* carries the reply (data), a rejected one throws past the status update
statusOnSettle(status, k, outcome, rep) ==
    IF outcome = "resolved"
    THEN IF ~replyRejects(rep) THEN statusAfterReply(k) ELSE "INVALID"
    ELSE status

\* sendCommand(cmd) is called (the calls are numbered in the order they are
\* made).  A streaming command starts polling the status
\* (the first `await this.getStreamStatus()` reads it); any other command goes
\* straight to sendRawCommand.
Call(c, k) ==
    /\ cpc[c] = "idle"
    /\ \A d \in Callers : d < c => cpc[d] # "idle"
    /\ cmd' = [cmd EXCEPT ![c] = k]
    /\ IF isStreamingCmd(k)
       THEN /\ obs' = [obs EXCEPT ![c] = streamStatus]
            /\ cpc' = [cpc EXCEPT ![c] = "poll"]
            /\ UNCHANGED <<commands, sendCommandInProcess, pool, sent, issued>>
       ELSE /\ WebUsbSendCommand(c)
            /\ cpc' = [cpc EXCEPT ![c] = "reply"]
            /\ UNCHANGED obs
    /\ UNCHANGED <<device, streamStatus, settled, replied>>
    /\ UNCHANGED txVars

\* while (await this.getStreamStatus() === 'PENDING') await sleep(0.01);
\* const streamStatus = await this.getStreamStatus();
PollResume(c) ==
    /\ cpc[c] = "poll"
    /\ IF obs[c] = "PENDING"
       THEN /\ cpc' = [cpc EXCEPT ![c] = "sleep"]
            /\ UNCHANGED obs
       ELSE /\ cpc' = [cpc EXCEPT ![c] = "check"]
            /\ obs' = [obs EXCEPT ![c] = streamStatus]
    /\ UNCHANGED <<commands, sendCommandInProcess, device, streamStatus, pool, settled,
                   cmd, sent, issued, replied>>
    /\ UNCHANGED txVars

\* the sleep timer fires (a task of the event loop): the loop condition reads
\* the status again
SleepDone(c) ==
    /\ cpc[c] = "sleep"
    /\ ~CmdMicrotaskPending
    /\ obs' = [obs EXCEPT ![c] = streamStatus]
    /\ cpc' = [cpc EXCEPT ![c] = "poll"]
    /\ UNCHANGED <<commands, sendCommandInProcess, device, streamStatus, pool, settled,
                   cmd, sent, issued, replied>>
    /\ UNCHANGED txVars

\* the second read has arrived: return {} when the status already matches,
\* otherwise `await this.setStreamStatus('PENDING')`
CheckResume(c) ==
    /\ cpc[c] = "check"
    /\ IF alreadyInTarget(obs[c], cmd[c])
       THEN /\ cpc' = [cpc EXCEPT ![c] = "done_empty"]
            /\ UNCHANGED streamStatus
       ELSE /\ cpc' = [cpc EXCEPT ![c] = "pending_set"]
            /\ streamStatus' = "PENDING"
    /\ obs' = [obs EXCEPT ![c] = "none"]
    /\ UNCHANGED <<commands, sendCommandInProcess, device, pool, settled,
                   cmd, sent, issued, replied>>
    /\ UNCHANGED txVars

\* const data = await this.sendRawCommand(req)  ->  WebUsb.sendCommand(req)
SendResume(c) ==
    /\ cpc[c] = "pending_set"
    /\ WebUsbSendCommand(c)
    /\ cpc' = [cpc EXCEPT ![c] = "reply"]
    /\ UNCHANGED <<device, streamStatus, settled, cmd, obs, replied>>
    /\ UNCHANGED txVars

\* the promise of sendRawCommand has settled: on a reply the status of a
\* streaming command is updated and the data returned; a rejection is rethrown
ReplyResume(c) ==
    /\ cpc[c] = "reply"
    /\ settled[c] # "pending"
    /\ cpc' = [cpc EXCEPT ![c] = IF settled[c] = "resolved" THEN "done_data" ELSE "done_throw"]
    /\ streamStatus' = IF isStreamingCmd(cmd[c])
                       THEN statusOnSettle(streamStatus, cmd[c], settled[c], replied[c])
                       ELSE streamStatus
    /\ UNCHANGED <<commands, sendCommandInProcess, device, pool, settled,
                   cmd, obs, sent, issued, replied>>
    /\ UNCHANGED txVars

(***************************************************************************)
(* WebUsb: TX pipeline                                                     *)
(***************************************************************************)
\* mutant: the queue counts as full one request too late
txQueueFull_offByOne(cnt) == cnt > MAX_SEND_DATA_REQUEST

\* this.sendDataReqCnt >= WebUsb.MAX_SEND_DATA_REQUEST
txQueueFull(cnt) == cnt >= MAX_SEND_DATA_REQUEST

\* mutant: allowDrop is ignored, every call waits
txWhenFull_ignoreDrop(drop) == "waiting"

\* what a call finding the queue full does: reject at once, or wait
txWhenFull(drop) == IF drop THEN "dropped" ELSE "waiting"

\* mutant: a failed transfer does not give its slot back
cntAfterTransfer_leakOnFailure(cnt, ok) == IF ok THEN cnt - 1 ELSE cnt

\* --this.sendDataReqCnt, on completion (ok) and on failure alike
cntAfterTransfer(cnt, ok) == cnt - 1

\* the setter of sendDataReqCnt calls the registered one-shot waiter, which
\* resolves its promise and unregisters itself
fireOnChange(pcs) ==
    IF onChangeSendDataReq = Undefined THEN pcs
    ELSE [pcs EXCEPT ![onChangeSendDataReq] = "woken"]

\* ++this.sendDataReqCnt; ++this.out; return this._sendTxPacket(pkt)
txIssue(t) ==
    /\ tpc' = [fireOnChange(tpc) EXCEPT ![t] = "transfer"]
    /\ onChangeSendDataReq' = Undefined
    /\ sendDataReqCnt' = sendDataReqCnt + 1
    /\ outCnt' = outCnt + 1
    /\ UNCHANGED inCnt

\* await this.waitForChangeSendDataReq(): the call's waiter replaces the
\* registered one
txWait(t) ==
    /\ tpc' = [tpc EXCEPT ![t] = "waiting"]
    /\ onChangeSendDataReq' = t
    /\ UNCHANGED <<sendDataReqCnt, inCnt, outCnt>>

\* sendTxRawPacket(pkt, allowDrop) is called (the calls are numbered in the
\* order they are made)
SendTxRawPacket(t, drop) ==
    /\ tpc[t] = "idle"
    /\ \A u \in TxCalls : u < t => tpc[u] # "idle"
    /\ allowDrop' = [allowDrop EXCEPT ![t] = drop]
    /\ IF txQueueFull(sendDataReqCnt)
       THEN IF txWhenFull(drop) = "dropped"
            THEN /\ tpc' = [tpc EXCEPT ![t] = "dropped"]
                 /\ UNCHANGED <<sendDataReqCnt, onChangeSendDataReq, inCnt, outCnt>>
            ELSE txWait(t)
       ELSE txIssue(t)
    /\ UNCHANGED cmdVars

\* a woken call resumes in the loop
\* while (this.sendDataReqCnt >= MAX_SEND_DATA_REQUEST) await this.waitForChangeSendDataReq()
TxWaiterResume(t) ==
    /\ tpc[t] = "woken"
    /\ IF txQueueFull(sendDataReqCnt) THEN txWait(t) ELSE txIssue(t)
    /\ UNCHANGED allowDrop
    /\ UNCHANGED cmdVars

\* the transfer of call t completes (ok) or fails (a task of the event loop,
\* run when no woken call is waiting to resume): the counter is decremented
\* and the promise of the call is settled
TxTransferDone(t, ok) ==
    /\ tpc[t] = "transfer"
    /\ \A u \in TxCalls : tpc[u] # "woken"
    /\ tpc' = [fireOnChange(tpc) EXCEPT ![t] = IF ok THEN "resolved" ELSE "rejected"]
    /\ onChangeSendDataReq' = Undefined
    /\ sendDataReqCnt' = cntAfterTransfer(sendDataReqCnt, ok)
    /\ inCnt' = inCnt + 1
    /\ UNCHANGED <<outCnt, allowDrop>>
    /\ UNCHANGED cmdVars

(***************************************************************************)
(* ControlWebUsb.setParameter: debounced parameter changes                 *)
(***************************************************************************)
\* timer: undefined
NoTimer == [due |-> -1, args |-> Undefined]

\* this._changeParmTimers.has(parm) is false
NoEntry == [timer |-> NoTimer, lastTime |-> -1]

\* { timer: undefined, lastTime: 0 }
NewEntry == [timer |-> NoTimer, lastTime |-> 0]

\* the entry setParameter works on: the stored one, or a fresh one
entryOf(map, k) == IF map[k] = NoEntry THEN NewEntry ELSE map[k]

\* curtime - defferedParm.lastTime > ControlWebUsb.SET_PARAMETER_TIMEOUT
windowElapsed(curtime, lastTime) == curtime - lastTime > SET_PARAMETER_TIMEOUT

\* setParameterNow(parm, args): the request is handed to sendCommand (whose
\* processing is the subject of SpecStream and SpecCmd); the wire log records
\* the key, the time and the arguments
setParameterNow(k, a, viaTimer, debounced) ==
    parmSent' = Append(parmSent,
                       [key |-> k, at |-> clock, args |-> a,
                        timer |-> viaTimer, debounced |-> debounced])

\* setParameter(parm, args, now): call number parmCalls + 1 carries the
\* arguments parmCalls + 1
setParameter(k, now) ==
    LET a == parmCalls + 1
        e == entryOf(changeParmTimers, k)
    IN /\ parmCalls < NumParmCalls
       /\ parmCalls' = a
       /\ IF now
          THEN /\ setParameterNow(k, a, FALSE, FALSE)
               /\ UNCHANGED <<changeParmTimers, lastDeferred>>
          ELSE IF windowElapsed(clock, e.lastTime)
          THEN /\ changeParmTimers' = [changeParmTimers EXCEPT ![k] = [e EXCEPT !.lastTime = clock]]
               /\ setParameterNow(k, a, FALSE, TRUE)
               /\ UNCHANGED lastDeferred
          ELSE IF e.timer = NoTimer
          THEN /\ changeParmTimers' = [changeParmTimers EXCEPT ![k] =
                       [e EXCEPT !.timer = [due |-> clock + SET_PARAMETER_TIMEOUT, args |-> a]]]
               /\ lastDeferred' = [lastDeferred EXCEPT ![k] = a]
               /\ UNCHANGED parmSent
          ELSE /\ changeParmTimers' = [changeParmTimers EXCEPT ![k] = e]
               /\ lastDeferred' = [lastDeferred EXCEPT ![k] = a]
               /\ UNCHANGED parmSent
       /\ UNCHANGED clock

\* the timer set by setParameter fires (at its due time or later): the entry
\* is updated and the arguments captured when the timer was set are sent
parmTimerFire(k) ==
    LET e == changeParmTimers[k]
    IN /\ e # NoEntry
       /\ e.timer # NoTimer
       /\ clock >= e.timer.due
       /\ changeParmTimers' = [changeParmTimers EXCEPT ![k] =
               [timer |-> NoTimer, lastTime |-> clock]]
       /\ setParameterNow(k, e.timer.args, TRUE, TRUE)
       /\ UNCHANGED <<clock, parmCalls, lastDeferred>>

\* time passes
tick ==
    /\ clock < MaxTime
    /\ clock' = clock + 1
    /\ UNCHANGED <<changeParmTimers, parmCalls, parmSent, lastDeferred>>

\* Date.now() is far beyond the window when the object is constructed
InitParm ==
    /\ clock = SET_PARAMETER_TIMEOUT + 1
    /\ changeParmTimers = [k \in ParmKeys |-> NoEntry]
    /\ parmCalls = 0
    /\ parmSent = <<>>
    /\ lastDeferred = [k \in ParmKeys |-> Undefined]

(***************************************************************************)
(* WebUsbWorkerManager and the worker: remote mode                         *)
(***************************************************************************)
\* the facade operations of the model: open, and sendCommand for every
\* operation guarded by `if (!this.worker) throw` (they differ in the fields
\* of the message only)
OpTypes == {"OPEN", "SEND_COMMAND"}

\* the message types onWorkerMessage has a case for
Catalog == OpTypes \cup {"START", "STOP"}

\* NON_MANAGER_TYPES of the worker
NON_MANAGER_TYPES == {"START", "STOP"}

\* the request types whose handler awaits before it responds
awaitsBeforeResponse(type) == type \in {"START", "OPEN", "SEND_COMMAND"}

\* mutant: the id repeats with period two
nextPromiseId_wrap(mapId) == (mapId % 2) + 1

\* ++this._promiseMapId
nextPromiseId(mapId) == mapId + 1

\* mutant: an error response resolves and an ok response rejects
settleBy_swapped(res) == IF res = "ok" THEN "rejected" ELSE "resolved"

\* msg.res === 'ok' ? promiseResolve : promiseReject
settleBy(res) == IF res = "ok" THEN "resolved" ELSE "rejected"

\* mutant: the worker posts nothing for an error
responsesFor_silentOnError(msg, res) ==
    IF res = "error" THEN <<>> ELSE <<[type |-> msg.type, id |-> msg.id, res |-> res]>>

\* sendResponse(msg.type, msg.id, res, ...)
responsesFor(msg, res) == <<[type |-> msg.type, id |-> msg.id, res |-> res]>>

\* mutant: a STOP response stops the worker only when its id is known
stopsWorker_onlyMatched(type, idx) == type = "STOP" /\ idx # Undefined

\* case 'STOP': this.onStopWorker() runs before the promise is looked at
stopsWorker(type, idx) == type = "STOP"

NoMsg == [from |-> Undefined, type |-> "none", id |-> Undefined, res |-> "none"]

\* createPromise() followed by worker.postMessage({type, id}) to worker w:
\* the state of the promise helper, the requests and the worker's queue
\* after creating and posting the requests `types` to the workers `tos`
RECURSIVE postAll(_, _, _, _, _, _)
postAll(types, tos, mapId, map, rq, wp) ==
    IF types = <<>> THEN [mapId |-> mapId, map |-> map, rq |-> rq, wp |-> wp]
    ELSE LET id == nextPromiseId(mapId)
             r == [id |-> id, type |-> Head(types), to |-> Head(tos),
                   st |-> "pending", by |-> Undefined]
         IN postAll(Tail(types), Tail(tos), id,
                    [map EXCEPT ![id] = Len(rq) + 1],
                    Append(rq, r),
                    [wp EXCEPT ![Head(tos)] = Append(@, [type |-> Head(types), id |-> id])])

\* the requests startWorker posts: STOP to the previous worker (stopWorker,
\* not awaited) when there is one, START to the new worker
startWorkerTypes == IF worker # Undefined THEN <<"STOP", "START">> ELSE <<"START">>
startWorkerTos == IF worker # Undefined THEN <<worker, workers + 1>> ELSE <<workers + 1>>

\* startWorker(): the body up to `return ret`
startWorkerBody ==
    LET r == postAll(startWorkerTypes, startWorkerTos, promiseMapId, promiseMap, requests, wposted)
    IN /\ workers < MaxWorkers
       /\ workers' = workers + 1
       /\ worker' = workers + 1
       /\ listening' = listening \cup {workers + 1}
       /\ promiseMapId' = r.mapId
       /\ promiseMap' = r.map
       /\ requests' = r.rq
       /\ wposted' = r.wp
       /\ UNCHANGED terminated

\* startWorker() called to restart the worker
startWorker ==
    /\ restarts < NumRestarts
    /\ restarts' = restarts + 1
    /\ startWorkerBody
    /\ UNCHANGED <<callLog, openWait, taken, busy, wlog, delivered, strayCnt, lastMsg>>

\* the worker of the START request that has been resolved is the current one
handshakeCompleted ==
    /\ worker # Undefined
    /\ \E i \in 1..Len(requests) :
          requests[i].type = "START" /\ requests[i].to = worker /\ requests[i].st = "resolved"

logCall(op, threw, posted) ==
    callLog' = Append(callLog, [op |-> op, hadWorker |-> worker # Undefined,
                                handshake |-> handshakeCompleted,
                                threw |-> threw, posted |-> posted])

\* createPromise and postMessage of one request of type t to the current worker
postToWorker(t) ==
    LET r == postAll(<<t>>, <<worker>>, promiseMapId, promiseMap, requests, wposted)
    IN /\ promiseMapId' = r.mapId
       /\ promiseMap' = r.map
       /\ requests' = r.rq
       /\ wposted' = r.wp

\* mutant: an operation also throws while the START handshake of the current
\* worker has not completed
notRunning_untilHandshake(w) == ~handshakeCompleted

\* if (!this.worker) throw new Error('WebUsbManager: worker is not running')
notRunning(w) == w = Undefined

\* close, sendCommand, getStreamStatus, ...: throw when not running,
\* otherwise createPromise and postMessage
operation(t) ==
    /\ Len(callLog) < NumOps
    /\ IF notRunning(worker)
       THEN /\ logCall(t, TRUE, <<>>)
            /\ UNCHANGED <<promiseMapId, promiseMap, requests, wposted>>
       ELSE /\ logCall(t, FALSE, <<t>>)
            /\ postToWorker(t)
    /\ UNCHANGED <<worker, restarts, workers, listening, terminated, openWait, taken, busy, wlog,
                   delivered, strayCnt, lastMsg>>

\* open(vendorId, productId): without a worker it starts one and awaits the
\* START promise; with a worker it posts OPEN
open ==
    /\ Len(callLog) < NumOps
    /\ IF worker = Undefined
       THEN /\ startWorkerBody
            /\ logCall("OPEN", FALSE, startWorkerTypes)
            /\ openWait' = openWait \cup {Len(requests')}
       ELSE /\ logCall("OPEN", FALSE, <<"OPEN">>)
            /\ postToWorker("OPEN")
            /\ UNCHANGED <<worker, workers, listening, terminated, openWait>>
    /\ UNCHANGED <<restarts, taken, busy, wlog, delivered, strayCnt, lastMsg>>

\* open() resumes after `await this.startWorker()`: a rejection is thrown on;
\* if (!this.worker) throw; otherwise createPromise and post OPEN
openResume(i) ==
    /\ i \in openWait
    /\ requests[i].st # "pending"
    /\ openWait' = openWait \ {i}
    /\ IF requests[i].st = "resolved" /\ worker # Undefined
       THEN postToWorker("OPEN")
       ELSE UNCHANGED <<promiseMapId, promiseMap, requests, wposted>>
    /\ UNCHANGED <<worker, restarts, workers, listening, terminated, callLog, taken, busy, wlog,
                   delivered, strayCnt, lastMsg>>

\* self.onmessage of worker w receives its next request: it responds at once
\* (a handler that does not await; or the early error of a request that needs
\* the device manager or a device and finds none), or its handler awaits
workerReceive(w, early, res) ==
    LET m == wposted[w][taken[w] + 1]
    IN /\ w \notin terminated
       /\ taken[w] < Len(wposted[w])
       /\ taken' = [taken EXCEPT ![w] = @ + 1]
       /\ IF ~awaitsBeforeResponse(m.type)
          THEN /\ early
               /\ wlog' = [wlog EXCEPT ![w] = @ \o responsesFor(m, res)]
               /\ UNCHANGED busy
          ELSE IF early
          THEN /\ m.type \notin NON_MANAGER_TYPES
               /\ res = "error"
               /\ wlog' = [wlog EXCEPT ![w] = @ \o responsesFor(m, res)]
               /\ UNCHANGED busy
          ELSE /\ res = "ok"
               /\ busy' = [busy EXCEPT ![w] = @ \cup {taken[w] + 1}]
               /\ UNCHANGED wlog
       /\ UNCHANGED <<worker, restarts, workers, listening, terminated, promiseMapId, promiseMap,
                      requests, callLog, openWait, wposted, delivered, strayCnt, lastMsg>>

\* the awaited operation of request k of worker w settles: the handler (or
\* its catch) posts the response
workerFinish(w, k, res) ==
    /\ w \notin terminated
    /\ k \in busy[w]
    /\ busy' = [busy EXCEPT ![w] = @ \ {k}]
    /\ wlog' = [wlog EXCEPT ![w] = @ \o responsesFor(wposted[w][k], res)]
    /\ UNCHANGED <<worker, restarts, workers, listening, terminated, promiseMapId, promiseMap,
                   requests, callLog, openWait, wposted, taken, delivered, strayCnt, lastMsg>>

\* the request a message's id is mapped to: this._promiseHelper.getPromise(msg.id)
getPromise(id) == IF id \in 1..MaxId THEN promiseMap[id] ELSE Undefined

\* onWorkerMessage(event) for a message msg that arrived from worker w
onWorkerMessage(w, msg) ==
    LET idx == getPromise(msg.id)
    IN /\ IF stopsWorker(msg.type, idx) /\ worker # Undefined
          THEN /\ listening' = listening \ {worker}
               /\ terminated' = terminated \cup {worker}
               /\ worker' = Undefined
          ELSE UNCHANGED <<worker, listening, terminated>>
       /\ IF idx # Undefined /\ msg.type \in Catalog /\ requests[idx].st = "pending"
          THEN requests' = [requests EXCEPT ![idx].st = settleBy(msg.res), ![idx].by = w]
          ELSE UNCHANGED requests
       /\ IF idx # Undefined
          THEN promiseMap' = [promiseMap EXCEPT ![msg.id] = Undefined]
          ELSE UNCHANGED promiseMap
       /\ lastMsg' = [from |-> w, type |-> msg.type, id |-> msg.id, res |-> msg.res]
       /\ UNCHANGED <<restarts, workers, promiseMapId, callLog, openWait, wposted, taken, busy, wlog>>

\* the next response of worker w reaches the manager's listener
deliver(w) ==
    /\ w \in listening
    /\ delivered[w] < Len(wlog[w])
    /\ delivered' = [delivered EXCEPT ![w] = @ + 1]
    /\ onWorkerMessage(w, wlog[w][delivered[w] + 1])
    /\ UNCHANGED strayCnt

\* a message of arbitrary type, id and res reaches the manager's listener
arbitraryMessage(w, type, id, res) ==
    /\ w \in listening
    /\ strayCnt < MaxStray
    /\ strayCnt' = strayCnt + 1
    /\ onWorkerMessage(w, [type |-> type, id |-> id, res |-> res])
    /\ UNCHANGED delivered

\* the manager after its constructor, which calls startWorker()
InitWorker ==
    /\ worker = 1
    /\ restarts = 0
    /\ workers = 1
    /\ listening = {1}
    /\ terminated = {}
    /\ promiseMapId = nextPromiseId(0)
    /\ promiseMap = [i \in 1..MaxId |-> IF i = nextPromiseId(0) THEN 1 ELSE Undefined]
    /\ requests = <<[id |-> nextPromiseId(0), type |-> "START", to |-> 1,
                 st |-> "pending", by |-> Undefined]>>
    /\ callLog = <<>>
    /\ openWait = {}
    /\ wposted = [w \in WorkerIds |->
                    IF w = 1 THEN <<[type |-> "START", id |-> nextPromiseId(0)]>> ELSE <<>>]
    /\ taken = [w \in WorkerIds |-> 0]
    /\ busy = [w \in WorkerIds |-> {}]
    /\ wlog = [w \in WorkerIds |-> <<>>]
    /\ delivered = [w \in WorkerIds |-> 0]
    /\ strayCnt = 0
    /\ lastMsg = NoMsg

(***************************************************************************)
(* The worker context: self.onmessage and the WebUsbDeviceManager          *)
(*                                                                         *)
(* A handler runs until it awaits something the event loop completes as a  *)
(* task (the load of the control module, navigator.usb.getDevices, the     *)
(* sleep and the device close of WebUsb.close); awaits of values that are  *)
(* already there continue before any other message is handled and are      *)
(* part of the same step.  Message n carries the id n.                     *)
(***************************************************************************)
\* the identities opened: 1..NumDevs have a constructor in webUsbMap, 0 has none
DevIds == 0..NumDevs

\* the request types of the model; FOO is a type outside the catalog
HTypes == {"START", "OPEN", "CLOSE", "FOO"}

\* NOT_NEEDED_DEVICE_TYPES of the worker
NOT_NEEDED_DEVICE_TYPES == {"OPEN", "CLOSE"}

\* WebUsbDeviceManager.getDevice(fd)
getDevice(fd) ==
    IF fd < 0 \/ fd >= Len(webUsbDevices) THEN Undefined ELSE webUsbDevices[fd + 1]

\* the first loop of WebUsbDeviceManager.open: the session of the first slot
\* that holds the identity d, or Undefined
findOpened(d) ==
    LET hits == {i \in 1..Len(webUsbDevices) :
                    /\ webUsbDevices[i] # Undefined
                    /\ sessions[webUsbDevices[i]].dev = d}
    IN IF hits = {} THEN Undefined
       ELSE webUsbDevices[CHOOSE i \in hits : \A j \in hits : i <= j]

\* the second loop of WebUsbDeviceManager.open: the first undefined slot, or -1
firstFreeSlot(arr) ==
    LET free == {i \in 0..(Len(arr) - 1) : arr[i + 1] = Undefined}
    IN IF free = {} THEN -1 ELSE CHOOSE i \in free : \A j \in free : i <= j

fallbackSlot_append(arr, fd) == IF fd < 0 THEN Len(arr) ELSE fd

\* `if (fd < 0) fd = 0`
fallbackSlot(arr, fd) == IF fd < 0 THEN 0 ELSE fd

\* `this.webUsbDevices[fd] = v`: an index past the end extends the array
setSlot(arr, fd, v) ==
    IF fd < Len(arr) THEN [arr EXCEPT ![fd + 1] = v] ELSE Append(arr, v)

\* getWebUsbInstance finds a constructor for the identity
inWebUsbMap(d) == d # 0

\* sendResponse(msg.type, msg.id, res, payload); fd is the payload of OPEN
sendResponse(msg, res, fd) == [type |-> msg.type, id |-> msg.id, res |-> res, fd |-> fd]

catchResponse_noId(msg) == [type |-> msg.type, id |-> Undefined, res |-> "error", fd |-> -1]

\* the postMessage of the catch block
catchResponse(msg) == [type |-> msg.type, id |-> msg.id, res |-> "error", fd |-> -1]

\* the response of OPEN for the session s: `ret >= 0 ? 'ok' : 'error'`
openResponse(msg, ss, s) ==
    sendResponse(msg, IF ss[s].fd >= 0 THEN "ok" ELSE "error", ss[s].fd)

\* self.onmessage, from the arrival of the message to its first await of a task
onmessage(type, fd, d) ==
    /\ hcount < NumMsgs
    /\ hcount' = hcount + 1
    /\ LET msg == [type |-> type, id |-> hcount + 1, fd |-> fd, dev |-> d]
           found == findOpened(d)
           slot == fallbackSlot(webUsbDevices, firstFreeSlot(webUsbDevices))
           new == Len(sessions) + 1
       IN
       /\ lastReq' = msg
       /\ IF type \notin NON_MANAGER_TYPES /\ ~webUsbDeviceManager
          THEN \* 'webUsbDeviceManager is not defined'
               /\ hposted' = <<sendResponse(msg, "error", -1)>>
               /\ UNCHANGED <<webUsbDeviceManager, webUsbDevices, sessions, hpending>>
          ELSE IF /\ type \notin NON_MANAGER_TYPES
                  /\ type \notin NOT_NEEDED_DEVICE_TYPES
                  /\ getDevice(fd) = Undefined
          THEN \* 'error getting a webusb device'
               /\ hposted' = <<sendResponse(msg, "error", -1)>>
               /\ UNCHANGED <<webUsbDeviceManager, webUsbDevices, sessions, hpending>>
          ELSE CASE type = "START" ->
                      \* await initControl(); sendResponse(isControlInitialized())
                      IF webUsbDeviceManager
                      THEN /\ hposted' = <<sendResponse(msg, "ok", -1)>>
                           /\ UNCHANGED <<webUsbDeviceManager, webUsbDevices, sessions, hpending>>
                      ELSE /\ hpending' = hpending \cup {[msg |-> msg, pc |-> "init", s |-> Undefined]}
                           /\ hposted' = <<>>
                           /\ UNCHANGED <<webUsbDeviceManager, webUsbDevices, sessions>>
                 [] type = "OPEN" ->
                      \* await initControl(); webUsbDeviceManager.open(vid, pid)
                      IF found # Undefined
                      THEN /\ hposted' = <<openResponse(msg, sessions, found)>>
                           /\ UNCHANGED <<webUsbDeviceManager, webUsbDevices, sessions, hpending>>
                      ELSE IF ~inWebUsbMap(d)
                      THEN /\ webUsbDevices' = setSlot(webUsbDevices, slot, Undefined)
                           /\ hposted' = <<sendResponse(msg, "error", -1)>>
                           /\ UNCHANGED <<webUsbDeviceManager, sessions, hpending>>
                      ELSE /\ sessions' = Append(sessions, [dev |-> d, fd |-> slot, st |-> "opening"])
                           /\ webUsbDevices' = setSlot(webUsbDevices, slot, new)
                           /\ hpending' = hpending \cup {[msg |-> msg, pc |-> "open", s |-> new]}
                           /\ hposted' = <<>>
                           /\ UNCHANGED webUsbDeviceManager
                 [] type = "CLOSE" ->
                      \* webUsbDeviceManager.close(fd)
                      IF getDevice(fd) = Undefined
                      THEN /\ hposted' = <<sendResponse(msg, "error", -1)>>
                           /\ UNCHANGED <<webUsbDeviceManager, webUsbDevices, sessions, hpending>>
                      ELSE /\ sessions' = [sessions EXCEPT ![getDevice(fd)].st =
                                              IF @ = "closed" THEN @ ELSE "closing"]
                           /\ hpending' = hpending \cup
                                  {[msg |-> msg, pc |-> "sleep", s |-> getDevice(fd)]}
                           /\ hposted' = <<>>
                           /\ UNCHANGED <<webUsbDeviceManager, webUsbDevices>>
                 [] OTHER ->
                      \* default: throw; the catch block answers
                      /\ hposted' = <<catchResponse(msg)>>
                      /\ UNCHANGED <<webUsbDeviceManager, webUsbDevices, sessions, hpending>>

\* a suspended handler goes on after the task it awaited; ok is the outcome
\* of the load of the control module
resume(h, ok) ==
    /\ h \in hpending
    /\ lastReq' = h.msg
    /\ UNCHANGED hcount
    /\ CASE h.pc = "init" ->
              \* initControl after `await initControlModule()`
              /\ webUsbDeviceManager' = (webUsbDeviceManager \/ ok)
              /\ hposted' = <<sendResponse(h.msg, IF webUsbDeviceManager' THEN "ok" ELSE "error", -1)>>
              /\ hpending' = hpending \ {h}
              /\ UNCHANGED <<webUsbDevices, sessions>>
         [] h.pc = "open" ->
              \* WebUsb.open after `await navigator.usb.getDevices()`, then the
              \* return of WebUsbDeviceManager.open and the response
              /\ ok
              /\ sessions' = [sessions EXCEPT ![h.s].st = IF @ = "opening" THEN "open" ELSE @]
              /\ hposted' = <<openResponse(h.msg, sessions', h.s)>>
              /\ hpending' = hpending \ {h}
              /\ UNCHANGED <<webUsbDeviceManager, webUsbDevices>>
         [] h.pc = "sleep" ->
              \* WebUsb.close after `await sleep(1)`: fd = -1; await device.close()
              /\ ok
              /\ sessions' = [sessions EXCEPT ![h.s].fd = -1]
              /\ hpending' = (hpending \ {h}) \cup {[h EXCEPT !.pc = "close"]}
              /\ hposted' = <<>>
              /\ UNCHANGED <<webUsbDeviceManager, webUsbDevices>>
         [] h.pc = "close" ->
              \* the rest of WebUsb.close, `this.webUsbDevices[fd] = undefined`
              \* and the response
              /\ ok
              /\ sessions' = [sessions EXCEPT ![h.s].st = "closed"]
              /\ webUsbDevices' = setSlot(webUsbDevices, h.msg.fd, Undefined)
              /\ hposted' = <<sendResponse(h.msg, "ok", -1)>>
              /\ hpending' = hpending \ {h}
              /\ UNCHANGED webUsbDeviceManager

\* the worker context before its first message
InitRegistry ==
    /\ webUsbDeviceManager = FALSE
    /\ webUsbDevices = <<>>
    /\ sessions = <<>>
    /\ hpending = {}
    /\ hcount = 0
    /\ lastReq = [type |-> "none", id |-> Undefined, fd |-> -1, dev |-> 0]
    /\ hposted = <<>>

(***************************************************************************)
(* The packet codecs: WebUsbWsdr (variant A) and WebUsbLimeSdr (variant B) *)
(*                                                                         *)
(* A 64-bit value is the sequence of its four 16-bit words, lowest first.  *)
(* A received buffer is [byteLength, trailer, tss]: trailer is the value   *)
(* of variant A's trailer word, tss the timestamps in the headers of       *)
(* variant B's sub-packets.                                                *)
(***************************************************************************)
\* x & m of two non-negative int32 values
RECURSIVE and(_, _)
and(x, m) == IF x = 0 \/ m = 0 THEN 0 ELSE (x % 2) * (m % 2) + 2 * and(x \div 2, m \div 2)

\* getRXPacketSize(samples)
getRXPacketSize(v, samples) ==
    IF v = "A"
    THEN and(samples * COMPLEX_INT16_SIZE + PACKET_ALIGN_MASK, MAX_PACKET_MASK) + EXTRA_RX_DATA
    ELSE ((samples + SAMPLES_PER_PACKET - 1) \div SAMPLES_PER_PACKET) * PACKET_SIZE

\* getTXPacketSize(samples)
getTXPacketSize(v, samples) ==
    IF v = "A"
    THEN samples * COMPLEX_INT16_SIZE + HEADER_SIZE
    ELSE LET lastPktFill == samples % SAMPLES_PER_PACKET
         IN (samples \div SAMPLES_PER_PACKET) * PACKET_SIZE
            + (IF lastPktFill > 0 THEN HEADER_SIZE + lastPktFill * COMPLEX_INT16_SIZE ELSE 0)

\* both sizes, computed for the sample counts s and t
packetSizes(s, t) ==
    /\ sizes' = [k \in {s, t} |-> [rx |-> getRXPacketSize(variant, k),
                                   tx |-> getTXPacketSize(variant, k)]]
    /\ UNCHANGED <<variant, timestamp, lastRecvTimestamp, rxLog, hdr>>

samplesField_raw(v, samples) ==
    IF v = "A" THEN and(samples, 32767) ELSE (samples * COMPLEX_INT16_SIZE) % 65536

\* the sample count as the header stores it: (samples - 1) & 0x7fff in
\* variant A, the byte length samples * 4 as a Uint16 in variant B
samplesField(v, samples) ==
    IF v = "A" THEN and(samples - 1, 32767) ELSE (samples * COMPLEX_INT16_SIZE) % 65536

\* _fillHeader throws for this sample count
fillHeaderThrows(v, samples) ==
    IF v = "A" THEN samples < MIN_SAMPLES_IN_PKT \/ samples > MAX_SAMPLES_IN_PKT
    ELSE samples % 4 # 0

\* the 16 header bytes _fillHeader writes, as eight Uint16 words for
\* variant A (it writes through a Uint16Array and a BigUint64Array) and as
\* sixteen bytes for variant B (it writes through a DataView)
fillHeader(v, flag, ts, samples) ==
    IF v = "A"
    THEN \* view64[0] = timestamp & 0xffffffffffff; view64[1] = 0; view16[3] = ...
         <<ts[1], ts[2], ts[3],
           ((IF flag THEN 32768 ELSE 0) + samplesField(v, samples)) % 65536,
           0, 0, 0, 0>>
    ELSE \* setUint8(0, flag << 4); setUint16(1, samples * 4, true); setUint8(3, 0);
         \* setUint32(4, 0); setBigUint64(8, timestamp, true)
         <<IF flag THEN 16 ELSE 0,
           samplesField(v, samples) % 256, samplesField(v, samples) \div 256, 0,
           0, 0, 0, 0,
           ts[1] % 256, ts[1] \div 256, ts[2] % 256, ts[2] \div 256,
           ts[3] % 256, ts[3] \div 256, ts[4] % 256, ts[4] \div 256>>

\* the fields read back from a header, by the layout _fillHeader documents:
\* the sample count, and the timestamp in the format's width
readHeader(v, h) ==
    IF v = "A"
    THEN [samples |-> and(h[4], 32767) + 1, ts |-> <<h[1], h[2], h[3]>>]
    ELSE [samples |-> (h[2] + 256 * h[3]) \div COMPLEX_INT16_SIZE,
          ts |-> <<h[9] + 256 * h[10], h[11] + 256 * h[12],
                   h[13] + 256 * h[14], h[15] + 256 * h[16]>>]

\* the call of _fillHeader on a buffer of sixteen bytes
writeHeader(flag, ts, samples) ==
    /\ ~hdr.called
    /\ hdr' = [called |-> TRUE, flag |-> flag, ts |-> ts, samples |-> samples,
               thrown |-> fillHeaderThrows(variant, samples),
               buf |-> IF fillHeaderThrows(variant, samples) THEN <<>>
                       ELSE fillHeader(variant, flag, ts, samples)]
    /\ UNCHANGED <<variant, timestamp, lastRecvTimestamp, rxLog, sizes>>

\* samplesRecv of decodeRxData
samplesRecv(v, byteLength) ==
    IF v = "A" THEN (byteLength - TRAILER_SIZE) \div COMPLEX_INT16_SIZE
    ELSE (byteLength - HEADER_SIZE * (byteLength \div PACKET_SIZE)) \div COMPLEX_INT16_SIZE

sizeMismatch_exact(v, recv, req) == req # recv

\* the size check of decodeRxData: variant A rejects `samples !== samplesRecv`,
\* variant B throws on `samplesRecv < samples`
sizeMismatch(v, recv, req) == IF v = "A" THEN req # recv ELSE recv < req

\* the overrun a sub-packet of variant B adds, from its timestamp and the
\* timestamp of the sub-packet before it
RECURSIVE packetOverrun(_, _)
packetOverrun(tss, i) ==
    IF i < 2 THEN 0
    ELSE LET samplesDelta == (tss[i] - tss[i - 1]) - SAMPLES_PER_PACKET
         IN packetOverrun(tss, i - 1)
            + (IF samplesDelta > 0 THEN samplesDelta \div SAMPLES_PER_PACKET ELSE 0)

\* the overrun decodeRxData reports: the low 24 bits of the trailer word in
\* variant A, the sum over the sub-packets in variant B
linkOverrun(v, buf) ==
    IF v = "A" THEN buf.trailer % 16777216
    ELSE packetOverrun(buf.tss, buf.byteLength \div PACKET_SIZE)

resultTimestamp_restart(v, running, overrun, recv, first) ==
    IF v = "A" THEN overrun * recv ELSE first

\* the timestamp of the result: variant A advances its running timestamp by
\* overrun * samplesRecv and returns it, variant B returns the timestamp of
\* the first header of the buffer
resultTimestamp(v, running, overrun, recv, first) ==
    IF v = "A" THEN running + overrun * recv ELSE first

nextTimestamp_same(v, result, recv) == result

\* the timestamp the session keeps after the decode: `_timestamp +=
\* samplesRecv` in variant A, `_lastRecvTimestamp = timestamp` in variant B
nextTimestamp(v, result, recv) == IF v = "A" THEN result + recv ELSE result

\* decodeRxData(data, samples)
decodeRxData(buf, samples) ==
    /\ Len(rxLog) < NumDecodes
    /\ LET recv == samplesRecv(variant, buf.byteLength)
           overrun == linkOverrun(variant, buf)
           running == IF variant = "A" THEN timestamp ELSE lastRecvTimestamp
           ts == resultTimestamp(variant, running, overrun, recv, buf.tss[1])
       IN IF sizeMismatch(variant, recv, samples)
          THEN /\ rxLog' = Append(rxLog, [ok |-> FALSE, req |-> samples, recv |-> recv,
                                          samples |-> 0, timestamp |-> 0, overrun |-> 0,
                                          first |-> buf.tss[1]])
               /\ UNCHANGED <<timestamp, lastRecvTimestamp>>
          ELSE /\ rxLog' = Append(rxLog, [ok |-> TRUE, req |-> samples, recv |-> recv,
                                          samples |-> recv, timestamp |-> ts,
                                          overrun |-> overrun, first |-> buf.tss[1]])
               /\ timestamp' = IF variant = "A" THEN nextTimestamp(variant, ts, recv)
                               ELSE timestamp
               /\ lastRecvTimestamp' = IF variant = "B" THEN nextTimestamp(variant, ts, recv)
                                       ELSE lastRecvTimestamp
    /\ UNCHANGED <<variant, sizes, hdr>>

\* a session of either variant after its constructor
InitCodec ==
    /\ variant \in {"A", "B"}
    /\ timestamp = 0
    /\ lastRecvTimestamp = 0
    /\ rxLog = <<>>
    /\ sizes = <<>>
    /\ hdr = [called |-> FALSE, flag |-> FALSE, ts |-> <<0, 0, 0, 0>>, samples |-> 0,
              thrown |-> FALSE, buf |-> <<>>]

(***************************************************************************)
(* WebUsb.close                                                            *)
(***************************************************************************)
clear_keep(q) == q

\* CircularBuffer.clear
clear(q) == [q EXCEPT !.head = 0, !.tail = 0, !.full = FALSE]

\* WebUsb.close, one segment per step: up to `await sleep(1)`, then up to
\* `await this.device?.close()`, then the rest; ok is the outcome of the
\* device's close (a rejection leaves close() rejected)
close(ok) ==
    /\ CASE closePc = "none" ->
              /\ ok
              /\ observers' = FALSE
              /\ commands' = clear(commands)
              /\ closePc' = "sleep"
              /\ UNCHANGED <<sfd, device, sendCommandInProcess>>
         [] closePc = "sleep" ->
              /\ ok
              /\ sfd' = -1
              /\ closePc' = "devclose"
              /\ UNCHANGED <<observers, commands, device, sendCommandInProcess>>
         [] closePc = "devclose" ->
              /\ closePc' = IF ok THEN "done" ELSE "failed"
              /\ device' = IF ok THEN FALSE ELSE device
              /\ sendCommandInProcess' = IF ok THEN FALSE ELSE sendCommandInProcess
              /\ UNCHANGED <<sfd, observers, commands>>
         [] OTHER -> FALSE
    /\ UNCHANGED <<streamStatus, pool, settled, cpc, cmd, obs, sent, issued, replied>>

\* an open session: its handle is its slot, its listeners are registered
InitSess ==
    /\ sfd = 0
    /\ observers = TRUE
    /\ closePc = "none"

\* a CircularBuffer after its constructor
InitRing ==
    /\ ring = CircularBuffer(RingLen)
    /\ ringOp = NoOp

\* Object.assign(target, source) on objects as functions of their keys
objectAssign(target, source) ==
    [k \in DOMAIN target \cup DOMAIN source |->
        IF k \in DOMAIN source THEN source[k] ELSE target[k]]

\* ControlWebUsb.getRequest(req, args, ext_args) on a template that has req_params
getRequest(req, args, ext_args) ==
    objectAssign([req EXCEPT !.req_params = objectAssign(@, args)], ext_args)

\* ControlWebUsb.Requests.FLASH_WRITE as the module defines it (req_data is
\* '', written 0)
FLASH_WRITE ==
    [req_method |-> "flash_write_sector", req_data |-> 0,
     req_params |-> [offset |-> 0, checksum |-> 0, param |-> 0]]

InitRequests ==
    /\ Requests = FLASH_WRITE
    /\ callArgs = <<>>
    /\ wire = <<>>

\* _fillHeader(buf, offset, ...) throws: the slice is shorter than a header,
\* or the sample count is rejected
fillHeaderThrowsAt(v, bufLen, offset, samples) ==
    bufLen - offset < HEADER_SIZE \/ fillHeaderThrows(v, samples)

\* timestamp + n on a 64-bit timestamp held as four 16-bit words, low word
\* first (the headers keep at most 64 bits of the BigInt)
addTimestamp(ts, n) ==
    LET s1 == ts[1] + (n % 65536)
        s2 == ts[2] + ((n \div 65536) % 65536) + (s1 \div 65536)
        s3 == ts[3] + (s2 \div 65536)
        s4 == ts[4] + (s3 \div 65536)
    IN <<s1 % 65536, s2 % 65536, s3 % 65536, s4 % 65536>>

\* opts?.sliceSamples || samplesCnt in variant A (0: not given);
\* SAMPLES_PER_PACKET in variant B
sliceSamples(v, samplesCnt, slice) ==
    IF v = "A" THEN (IF slice # 0 THEN slice ELSE samplesCnt) ELSE SAMPLES_PER_PACKET

\* Math.ceil(samplesCnt / sliceSamples); 0 / 0 is NaN and the loop does not run
chunkCnt(samplesCnt, slice) ==
    IF slice = 0 THEN 0 ELSE (samplesCnt + slice - 1) \div slice

\* bufSize of encodeTxData
encodeBufSize(v, samplesCnt, slice) ==
    IF v = "A"
    THEN samplesCnt * COMPLEX_INT16_SIZE + chunkCnt(samplesCnt, slice) * HEADER_SIZE
    ELSE getTXPacketSize(v, samplesCnt)

\* pktOffset of chunk i (from 0)
pktOffset(v, slice, i) ==
    IF v = "A" THEN i * getTXPacketSize(v, slice) ELSE i * PACKET_SIZE

\* mutant: every chunk is declared with the slice size
chunkSamples_full(samplesCnt, slice, i) == slice

\* samples of chunk i (from 0): the slice size, the rest in the last chunk
chunkSamples(samplesCnt, slice, i) ==
    IF i < chunkCnt(samplesCnt, slice) - 1 THEN slice ELSE samplesCnt - i * slice

\* the length of the output buffer: opts.data when given, else a new
\* ArrayBuffer(bufSize)
outputLength(out, bufSize) == IF out.given THEN out.byteLength ELSE bufSize

\* mutant: encodeTxData never throws
encodeThrows_never(v, samplesCnt, slice, out) == FALSE

\* encodeTxData throws: the output buffer is too short, or _fillHeader throws
\* for one of the chunks
encodeThrows(v, samplesCnt, slice, out) ==
    LET bufSize == encodeBufSize(v, samplesCnt, slice)
        len == outputLength(out, bufSize)
    IN \/ len < bufSize
       \/ \E i \in 0..(chunkCnt(samplesCnt, slice) - 1) :
             fillHeaderThrowsAt(v, len, pktOffset(v, slice, i), chunkSamples(samplesCnt, slice, i))

\* the headers encodeTxData has written when it returns, with their offsets
\* in the output buffer, for a buffer of samplesCnt samples cut in slices of
\* `slice` samples
encodeHeaders(v, flag, ts, samplesCnt, slice) ==
    [k \in 1..chunkCnt(samplesCnt, slice) |->
        [offset |-> pktOffset(v, slice, k - 1),
         buf |-> fillHeader(v, flag, addTimestamp(ts, (k - 1) * slice),
                            chunkSamples(samplesCnt, slice, k - 1))]]

NoEncode ==
    [called |-> FALSE, flag |-> FALSE, ts |-> <<0, 0, 0, 0>>, samplesCnt |-> 0,
     slice |-> 0, thrown |-> FALSE, headers |-> <<>>]

\* encodeTxData(data, opts) on a buffer of samplesCnt samples with
\* data.timestamp = ts, data.discard_timestamp = flag, opts.sliceSamples =
\* slice (0: not given) and opts.data = out
encodeTxData(flag, ts, samplesCnt, slice, out) ==
    LET sl == sliceSamples(variant, samplesCnt, slice)
        thrown == encodeThrows(variant, samplesCnt, sl, out)
    IN /\ ~encoded.called
       /\ encoded' = [called |-> TRUE, flag |-> flag, ts |-> ts, samplesCnt |-> samplesCnt,
                      slice |-> slice, thrown |-> thrown,
                      headers |-> IF thrown THEN <<>>
                                  ELSE encodeHeaders(variant, flag, ts, samplesCnt, sl)]
       /\ UNCHANGED txSub

\* sendTxPacket(data, opts) up to its await: `const buf = await this.encodeTxData(data,
\* opts)` up to the await; the encoder touches no field of the session
sendTxPacket(samplesCnt, slice, out, drop) ==
    /\ Len(txSub) < NumSub
    /\ txSub' = Append(txSub,
          [samplesCnt |-> samplesCnt, slice |-> slice, out |-> out, drop |-> drop,
           thrown |-> encodeThrows(variant, samplesCnt,
                                   sliceSamples(variant, samplesCnt, slice), out),
           raw |-> Undefined])
    /\ UNCHANGED encoded
    /\ UNCHANGED <<cmdVars, txVars>>

\* sendTxPacket goes on after the await: a rejection of encodeTxData leaves
\* the function, otherwise `return this.sendTxRawPacket(buf, allowDrop)`
sendTxPacketResume(e, t) ==
    /\ e \in 1..Len(txSub)
    /\ txSub[e].raw = Undefined
    /\ ~txSub[e].thrown
    /\ SendTxRawPacket(t, txSub[e].drop)
    /\ txSub' = [txSub EXCEPT ![e].raw = t]
    /\ UNCHANGED encoded

InitEncode ==
    /\ encoded = NoEncode
    /\ txSub = <<>>

InitMore == InitRing /\ InitRequests /\ InitEncode

InitExt == InitRegistry /\ InitSess /\ InitCodec /\ InitMore

(***************************************************************************)
(* Specifications                                                          *)
(***************************************************************************)
InitCommands(reqs) ==
    /\ commands = CircularBuffer(COMMANDS_LEN)
    /\ sendCommandInProcess = FALSE
    /\ device = TRUE
    /\ pool = [c \in reqs |-> NoPool]
    /\ settled = [c \in reqs |-> "pending"]
    /\ cpc = [c \in reqs |-> "idle"]
    /\ cmd = [c \in reqs |-> "none"]
    /\ obs = [c \in reqs |-> "none"]
    /\ sent = <<>>
    /\ issued = <<>>
    /\ replied = [c \in reqs |-> "none"]

InitTx ==
    /\ sendDataReqCnt = 0
    /\ onChangeSendDataReq = Undefined
    /\ tpc = [t \in TxCalls |-> "idle"]
    /\ allowDrop = [t \in TxCalls |-> FALSE]
    /\ inCnt = 0
    /\ outCnt = 0

\* ---- SpecCmd: NumCmds calls of WebUsb.sendCommand on one open session ----
\* WebUsb.sendCommand(req) called directly (the requests are numbered in the
\* order of the calls)
SendCommand(c) ==
    /\ c = Len(sent) + 1
    /\ WebUsbSendCommand(c)
    /\ UNCHANGED <<device, streamStatus, settled, cpc, cmd, obs, replied>>
    /\ UNCHANGED txVars

InitCmd ==
    /\ InitCommands(CmdReqs)
    /\ streamStatus = "STOPPED"
    /\ InitTx
    /\ InitParm
    /\ InitWorker
    /\ InitExt

NextCmd ==
    /\ \/ \E c \in CmdReqs : SendCommand(c)
       \/ \E p \in CmdReqs, o \in NativeOutcomes : NativeReturn(p, o)
       \/ \E p \in CmdReqs : ParseDone(p)
       \/ \E p \in CmdReqs : PoolResume(p)
    /\ UNCHANGED <<parmVars, wrkVars, extVars>>

SpecCmd == InitCmd /\ [][NextCmd]_vars

\* ---- SpecCmdFair: SpecCmd in which every native call returns and every ----
\* ---- promise continuation runs                                         ----
CmdProgress == NextCmd /\ sent' = sent

SpecCmdFair == SpecCmd /\ WF_vars(CmdProgress)

\* ---- SpecCmdFull: NumOverflow sendCommand calls made while the command ----
\* ---- queue of a session is full; every native call returns a reply    ----
\* ---- without an error field                                           ----
FullReqs == 1..(COMMANDS_LEN + NumOverflow)

\* the session after COMMANDS_LEN sendCommand calls made in one synchronous
\* run on an idle session: the first request is in the native call, the
\* queue holds all of them and is full
InitCmdFull ==
    /\ commands = [len |-> COMMANDS_LEN,
                   buf |-> [i \in 0..(COMMANDS_LEN - 1) |-> i + 1],
                   head |-> 0, tail |-> 0, full |-> TRUE]
    /\ sendCommandInProcess = TRUE
    /\ device = TRUE
    /\ pool = [c \in FullReqs |->
                  IF c = 1 THEN [pc |-> "ccall", req |-> 1, rep |-> "none"] ELSE NoPool]
    /\ settled = [c \in FullReqs |-> "pending"]
    /\ cpc = [c \in FullReqs |-> "idle"]
    /\ cmd = [c \in FullReqs |-> "none"]
    /\ obs = [c \in FullReqs |-> "none"]
    /\ sent = [i \in 1..COMMANDS_LEN |-> i]
    /\ issued = <<1>>
    /\ replied = [c \in FullReqs |-> "none"]
    /\ streamStatus = "STOPPED"
    /\ InitTx
    /\ InitParm
    /\ InitWorker
    /\ InitExt

NextCmdFull ==
    /\ \/ \E c \in FullReqs : (commands.full /\ SendCommand(c))
       \/ \E p \in FullReqs : NativeReturn(p, "ok")
       \/ \E p \in FullReqs : ParseDone(p)
       \/ \E p \in FullReqs : PoolResume(p)
    /\ UNCHANGED <<parmVars, wrkVars, extVars>>

CmdFullProgress == NextCmdFull /\ sent' = sent

SpecCmdFull == InitCmdFull /\ [][NextCmdFull]_vars /\ WF_vars(CmdFullProgress)

\* ---- SpecStream: NumCallers calls of ControlWebUsb.sendCommand (direct mode)
\* the session starts in any status setStreamStatus can have left
InitStream ==
    /\ InitCommands(Callers)
    /\ streamStatus \in StreamStatus \ {"PENDING"}
    /\ InitTx
    /\ InitParm
    /\ InitWorker
    /\ InitExt

NextStream ==
    /\ \/ \E c \in Callers, k \in Cmds : Call(c, k)
       \/ \E c \in Callers : PollResume(c)
       \/ \E c \in Callers : SleepDone(c)
       \/ \E c \in Callers : CheckResume(c)
       \/ \E c \in Callers : SendResume(c)
       \/ \E c \in Callers : ReplyResume(c)
       \/ \E p \in Callers, o \in NativeOutcomes : NativeReturn(p, o)
       \/ \E p \in Callers : ParseDone(p)
       \/ \E p \in Callers : PoolResume(p)
    /\ UNCHANGED <<parmVars, wrkVars, extVars>>

SpecStream == InitStream /\ [][NextStream]_vars

\* ---- SpecStreamFair: SpecStream in which every native call returns (with ----
\* ---- any outcome), every timer fires and every continuation runs        ----
\* every step of SpecStream but a new sendCommand call
StreamProgress == NextStream /\ cmd' = cmd

\* the steps of the command queue: native returns and their continuations
\* (a polling caller does not keep them from running)
StreamQueueProgress == StreamProgress /\ pool' # pool

SpecStreamFair == SpecStream /\ WF_vars(StreamProgress) /\ WF_vars(StreamQueueProgress)

\* ---- SpecTx: NumTx calls of sendTxRawPacket on one open session ----
InitTxSpec ==
    /\ InitCommands(CmdReqs)
    /\ streamStatus = "STOPPED"
    /\ InitTx
    /\ InitParm
    /\ InitWorker
    /\ InitExt

NextTx ==
    /\ \/ \E t \in TxCalls, d \in BOOLEAN : SendTxRawPacket(t, d)
       \/ \E t \in TxCalls : TxWaiterResume(t)
       \/ \E t \in TxCalls, ok \in BOOLEAN : TxTransferDone(t, ok)
    /\ UNCHANGED <<parmVars, wrkVars, extVars>>

SpecTx == InitTxSpec /\ [][NextTx]_vars

\* ---- SpecTxFair: SpecTx in which every issued transfer completes or ----
\* ---- fails and every woken call resumes                             ----
\* every step of SpecTx but a new sendTxRawPacket call
TxProgress == NextTx /\ \A t \in TxCalls : tpc[t] = "idle" => tpc'[t] = "idle"

SpecTxFair == SpecTx /\ WF_vars(TxProgress)

\* ---- SpecParam: NumParmCalls calls of setParameter on one ControlWebUsb ----
InitParmSpec ==
    /\ InitCommands(CmdReqs)
    /\ streamStatus = "STOPPED"
    /\ InitTx
    /\ InitParm
    /\ InitWorker
    /\ InitExt

NextParm ==
    /\ \/ \E k \in ParmKeys, now \in BOOLEAN : setParameter(k, now)
       \/ \E k \in ParmKeys : parmTimerFire(k)
       \/ tick
    /\ UNCHANGED <<cmdVars, txVars, wrkVars, extVars>>

SpecParam == InitParmSpec /\ [][NextParm]_vars

\* ---- SpecWorker: the manager, its workers and the messages between them ----
InitWorkerSpec ==
    /\ InitCommands(CmdReqs)
    /\ streamStatus = "STOPPED"
    /\ InitTx
    /\ InitParm
    /\ InitWorker
    /\ InitExt

WorkerStep ==
    \/ startWorker
    \/ \E t \in OpTypes \ {"OPEN"} : operation(t)
    \/ open
    \/ \E i \in 1..MaxId : openResume(i)
    \/ \E w \in WorkerIds, early \in BOOLEAN, res \in {"ok", "error"} : workerReceive(w, early, res)
    \/ \E w \in WorkerIds, k \in 1..MaxId, res \in {"ok", "error"} : workerFinish(w, k, res)
    \/ \E w \in WorkerIds : deliver(w)

NextWorker ==
    /\ WorkerStep
    /\ UNCHANGED <<cmdVars, txVars, parmVars, extVars>>

SpecWorker == InitWorkerSpec /\ [][NextWorker]_vars

\* ---- SpecMsg: the manager, with messages of any content and in any order
\* reaching onWorkerMessage ----
MsgTypes == Catalog \cup {"UNKNOWN"}

NextMsg ==
    /\ \/ startWorker
       \/ \E t \in OpTypes \ {"OPEN"} : operation(t)
       \/ open
       \/ \E i \in 1..MaxId : openResume(i)
       \/ \E w \in WorkerIds, type \in MsgTypes, id \in 0..(promiseMapId + 1),
             res \in {"ok", "error"} : arbitraryMessage(w, type, id, res)
    /\ UNCHANGED <<cmdVars, txVars, parmVars, extVars>>

SpecMsg == InitWorkerSpec /\ [][NextMsg]_vars

\* ---- SpecClose: NumCmds calls of WebUsb.sendCommand, then close() ----
NextClose ==
    /\ \/ /\ \/ \E c \in CmdReqs : (closePc = "none" /\ SendCommand(c))
             \/ \E p \in CmdReqs, o \in NativeOutcomes : NativeReturn(p, o)
             \/ \E p \in CmdReqs : ParseDone(p)
             \/ \E p \in CmdReqs : PoolResume(p)
          /\ UNCHANGED sessVars
       \/ /\ \E ok \in BOOLEAN : close(ok)
          /\ UNCHANGED txVars
    /\ UNCHANGED <<parmVars, wrkVars, regVars, codecVars, moreVars>>

SpecClose == InitCmd /\ [][NextClose]_vars

\* ---- SpecCloseFair: SpecClose in which the event loop keeps running ----
\* every step of SpecClose but a new sendCommand call: native calls return,
\* promise continuations run, and close() goes on after its timer and after
\* the device's close
CloseProgress == NextClose /\ sent' = sent

SpecCloseFair == SpecClose /\ WF_vars(CloseProgress)

\* ---- SpecDecode: NumDecodes calls of decodeRxData on one session ----
\* the buffers received: variant A's hold 128 or 256 samples (or two bytes
\* more) and a trailer word; variant B's hold one or two whole sub-packets
\* and possibly half a sub-packet more
RxBuffers ==
    IF variant = "A"
    THEN [byteLength : {128 * COMPLEX_INT16_SIZE + TRAILER_SIZE,
                        128 * COMPLEX_INT16_SIZE + TRAILER_SIZE + 2,
                        256 * COMPLEX_INT16_SIZE + TRAILER_SIZE},
          trailer : {0, 1, 3, 16777216},
          tss : {<<0>>}]
    ELSE LET tsValues == {0, SAMPLES_PER_PACKET, 3 * SAMPLES_PER_PACKET}
         IN [byteLength : {PACKET_SIZE, PACKET_SIZE + PACKET_SIZE \div 2},
             trailer : {0},
             tss : {<<a>> : a \in tsValues}]
             \cup
            [byteLength : {2 * PACKET_SIZE, 2 * PACKET_SIZE + PACKET_SIZE \div 2},
             trailer : {0},
             tss : {<<a, b>> : a \in tsValues, b \in tsValues}]

\* the sample counts requested
RxRequests ==
    IF variant = "A" THEN {128, 256}
    ELSE {SAMPLES_PER_PACKET, SAMPLES_PER_PACKET + SAMPLES_PER_PACKET \div 2, 2 * SAMPLES_PER_PACKET}

NextDecode ==
    /\ \E buf \in RxBuffers, samples \in RxRequests : decodeRxData(buf, samples)
    /\ UNCHANGED <<cmdVars, txVars, parmVars, wrkVars, regVars, sessVars, moreVars>>

SpecDecode == InitWorkerSpec /\ [][NextDecode]_vars

\* ---- SpecSize: the packet size functions on pairs of sample counts ----
\* small counts, the limits of a packet of variant A, the sub-packet of
\* variant B, and the counts around MAX_PACKET_MASK bytes
SampleCounts ==
    (0..MaxSmallSamples)
    \cup {MIN_SAMPLES_IN_PKT, MAX_SAMPLES_IN_PKT}
    \cup ((SAMPLES_PER_PACKET - SpanSamples)..(SAMPLES_PER_PACKET + SpanSamples))
    \cup ((MAX_PACKET_MASK \div COMPLEX_INT16_SIZE - SpanSamples)
             ..(MAX_PACKET_MASK \div COMPLEX_INT16_SIZE + SpanSamples))

NextSize ==
    /\ \E s \in SampleCounts, t \in SampleCounts : (s <= t /\ packetSizes(s, t))
    /\ UNCHANGED <<cmdVars, txVars, parmVars, wrkVars, regVars, sessVars, moreVars>>

SpecSize == InitWorkerSpec /\ [][NextSize]_vars

\* ---- SpecHeader: _fillHeader on sample counts and 64-bit timestamps ----
Words16 == {0, 1, 4660, 65535}

HeaderSamples ==
    IF variant = "A"
    THEN {MIN_SAMPLES_IN_PKT - 1, MIN_SAMPLES_IN_PKT, MIN_SAMPLES_IN_PKT + 1, 4096,
          MAX_SAMPLES_IN_PKT - 1, MAX_SAMPLES_IN_PKT, MAX_SAMPLES_IN_PKT + 1}
    ELSE {0, 3, 4, 8, 512, SAMPLES_PER_PACKET - 4, SAMPLES_PER_PACKET}

NextHeader ==
    /\ \E flag \in BOOLEAN, ts \in [1..4 -> Words16], samples \in HeaderSamples :
          writeHeader(flag, ts, samples)
    /\ UNCHANGED <<cmdVars, txVars, parmVars, wrkVars, regVars, sessVars, moreVars>>

SpecHeader == InitWorkerSpec /\ [][NextHeader]_vars

\* ---- SpecRegistry: NumMsgs messages handled by the worker context ----
NextRegistry ==
    /\ \/ \E type \in HTypes, fd \in -1..1, d \in DevIds : onmessage(type, fd, d)
       \/ \E h \in hpending, ok \in BOOLEAN : resume(h, ok)
    /\ UNCHANGED <<cmdVars, txVars, parmVars, wrkVars, sessVars, codecVars, moreVars>>

SpecRegistry == InitWorkerSpec /\ [][NextRegistry]_vars

\* ---- SpecRing: any sequence of operations on one CircularBuffer ----
\* the operation op with argument arg is applied to the buffer
ringCall(op, arg) ==
    /\ ring' = CASE op = "push_back" -> push_back(ring, arg)
                 [] op = "push_front" -> push_front(ring, arg)
                 [] op = "pop_front" -> pop_front(ring, arg)
                 [] op = "pop_back" -> pop_back(ring, arg)
                 [] op = "clear" -> clear(ring)
    /\ ringOp' = [op |-> op, arg |-> arg]

NextRing ==
    /\ \/ \E v \in 1..NumVals : ringCall("push_back", v)
       \/ \E v \in 1..NumVals : ringCall("push_front", v)
       \/ \E n \in -1..(RingLen + 2) : ringCall("pop_front", n)
       \/ \E n \in -1..(RingLen + 2) : ringCall("pop_back", n)
       \/ ringCall("clear", 0)
    /\ UNCHANGED <<cmdVars, txVars, parmVars, wrkVars, regVars, sessVars, codecVars, reqVars, encVars>>

SpecRing == InitWorkerSpec /\ [][NextRing]_vars

\* ---- SpecEncode: one encodeTxData call on a session of either variant ----
\* the sample counts of the TX buffer: around the limits of a chunk and
\* around the multiples of the slice sizes
TxSampleCounts ==
    IF variant = "A"
    THEN {0, MIN_SAMPLES_IN_PKT - 1, MIN_SAMPLES_IN_PKT, 256, 300, 512,
          MAX_SAMPLES_IN_PKT, MAX_SAMPLES_IN_PKT + 1, 2 * MAX_SAMPLES_IN_PKT}
    ELSE {0, 8, SAMPLES_PER_PACKET - 2, SAMPLES_PER_PACKET, SAMPLES_PER_PACKET + 2,
          SAMPLES_PER_PACKET + 8, 2 * SAMPLES_PER_PACKET, 3 * SAMPLES_PER_PACKET + 8}

\* opts.sliceSamples (0: not given)
SliceSizes == {0, MIN_SAMPLES_IN_PKT, 256, MAX_SAMPLES_IN_PKT}

\* data.timestamp: 0, and values whose increments carry out of 48 and of 64 bits
TxTimestamps == {<<0, 0, 0, 0>>, <<65535, 65535, 65535, 0>>, <<65280, 65535, 65535, 65535>>}

\* opts.data: not given, too short for a header, long enough for every input
OutBuffers ==
    {[given |-> FALSE, byteLength |-> 0], [given |-> TRUE, byteLength |-> 8],
     [given |-> TRUE, byteLength |-> MAX_PACKET_SIZE + 1]}

NextEncode ==
    /\ \E flag \in BOOLEAN, ts \in TxTimestamps, n \in TxSampleCounts,
          slice \in SliceSizes, out \in OutBuffers :
          encodeTxData(flag, ts, n, slice, out)
    /\ UNCHANGED <<cmdVars, txVars, parmVars, wrkVars, regVars, sessVars, codecVars,
                   ringVars, reqVars>>

SpecEncode == InitWorkerSpec /\ [][NextEncode]_vars

\* ---- SpecTxPacket: NumSub calls of WebUsb.sendTxPacket on one session ----
\* the sample counts submitted: below the minimum of variant A, valid, and
\* leaving a short last chunk; in variant B a multiple of 4 or not
SubSampleCounts ==
    IF variant = "A" THEN {MIN_SAMPLES_IN_PKT - 28, 256, 300}
    ELSE {8, SAMPLES_PER_PACKET + 2, SAMPLES_PER_PACKET + 8}

NextTxPacket ==
    /\ \/ /\ \E n \in SubSampleCounts, slice \in {0, 256}, drop \in BOOLEAN,
                out \in {[given |-> FALSE, byteLength |-> 0], [given |-> TRUE, byteLength |-> 8]} :
                sendTxPacket(n, slice, out, drop)
       \/ /\ \E e \in 1..NumSub, t \in TxCalls : sendTxPacketResume(e, t)
       \/ /\ \E t \in TxCalls : TxWaiterResume(t)
          /\ UNCHANGED encVars
       \/ /\ \E t \in TxCalls, ok \in BOOLEAN : TxTransferDone(t, ok)
          /\ UNCHANGED encVars
    /\ UNCHANGED <<parmVars, wrkVars, regVars, sessVars, codecVars, ringVars, reqVars>>

SpecTxPacket == InitWorkerSpec /\ [][NextTxPacket]_vars

\* ---- SpecRequest: NumReqCalls calls of ControlWebUsb.sendCommand('FLASH_WRITE', ----
\* ---- args, ext_args) in single-manager mode on one open session         ----
\* the arguments of a call: any of the keys, with values 1..NumVals
ArgSets(keys) == UNION {[K -> 1..NumVals] : K \in SUBSET keys}

\* JSON.stringify(req) in _sendCommand: when this step issues a native call,
\* the request object req is serialised as it is now
stringified(req) == IF Len(issued') > Len(issued) THEN Append(wire, req) ELSE wire

\* ControlWebUsb.sendCommand(cmd, args, ext_args) for a command that is not a
\* streaming command: getRequest, then sendRawCommand ->
\* WebUsbSingleManager.sendCommand -> WebUsb.sendCommand(req), which gets the
\* template object itself
controlSendCommand(c, args, ext_args) ==
    /\ Len(callArgs) < NumReqCalls
    /\ Requests' = getRequest(Requests, args, ext_args)
    /\ callArgs' = Append(callArgs, [args |-> args, ext_args |-> ext_args])
    /\ SendCommand(c)
    /\ wire' = stringified(Requests')

\* a step of the command queue; every queued request is the template object
commandQueueStep ==
    /\ \/ \E p \in CmdReqs, o \in NativeOutcomes : NativeReturn(p, o)
       \/ \E p \in CmdReqs : ParseDone(p)
       \/ \E p \in CmdReqs : PoolResume(p)
    /\ wire' = stringified(Requests)
    /\ UNCHANGED <<Requests, callArgs>>

NextRequest ==
    /\ \/ \E c \in CmdReqs, args \in ArgSets({"offset", "param"}), ext_args \in ArgSets({"req_data"}) :
             controlSendCommand(c, args, ext_args)
       \/ commandQueueStep
    /\ UNCHANGED <<parmVars, wrkVars, regVars, sessVars, codecVars, ringVars, encVars>>

SpecRequest == InitCmd /\ [][NextRequest]_vars

(***************************************************************************)
(* Claims                                                                  *)
(***************************************************************************)
\* the pools whose native send_command call is in progress
NativeInFlight == {p \in DOMAIN pool : pool[p].pc = "ccall"}

\* the requests in the command queue
Queued == {contents(commands)[i] : i \in 1..size(commands)}

\* the requests handed to the native call so far
Issued == {issued[i] : i \in 1..Len(issued)}

\* C1: for every interleaving of sendCommand calls at most one native
\* send_command round trip is in progress at any time.
C1_SingleFlight == Cardinality(NativeInFlight) <= 1

\* C2: the sequence of requests passed to the native call follows the
\* sequence of requests passed to sendCommand, in the same order, each request
\* issued once: at every moment the former is a prefix of the latter.
C2_IssuedInSendOrder ==
    /\ Len(issued) <= Len(sent)
    /\ issued = SubSeq(sent, 1, Len(issued))

\* C3: when the reply of a request has an error field or the native call
\* returned non-zero, settling it rejects exactly that request's promise, and
\* every other request queued at that moment stays queued (or is already
\* issued), to be settled by its own reply.
C3_OnlyFailedRequestRejected ==
    [][\A p \in DOMAIN pool :
         (pool[p].pc = "ret" /\ pool'[p] # pool[p] /\ pool[p].rep \in {"errfield", "nonzero"})
         => /\ \A y \in DOMAIN settled :
                  IF y = pool[p].req
                  THEN settled'[y] = "rejected"
                  ELSE settled'[y] = settled[y]
            /\ \A y \in Queued \ {pool[p].req} :
                  y \in Queued' \/ y \in Issued']_vars

\* the TX calls whose transfer is outstanding
TxOutstanding == {t \in TxCalls : tpc[t] = "transfer"}

\* C4: the outstanding-TX counter never exceeds the configured maximum, and
\* no more than the maximum of transfers are outstanding: a further submission
\* issues its transfer only after an earlier one has completed or failed.
C4_TxCounterBounded ==
    /\ sendDataReqCnt <= MAX_SEND_DATA_REQUEST
    /\ Cardinality(TxOutstanding) <= MAX_SEND_DATA_REQUEST

\* C4 witness: a call beyond the first C, made with allowDrop=false, has
\* issued its transfer and the counter is at the maximum again.
C4_Witness ==
    \E t \in TxCalls :
        /\ t > MAX_SEND_DATA_REQUEST
        /\ ~allowDrop[t]
        /\ tpc[t] = "transfer"
        /\ inCnt > 0
        /\ sendDataReqCnt = MAX_SEND_DATA_REQUEST

\* C5: a call suspended at the maximum is resumed by the next TX completion
\* or failure.
C5_ResumedByNextCompletion ==
    [][\A t \in TxCalls :
         (tpc[t] = "waiting" /\ inCnt' = inCnt + 1) => tpc'[t] = "woken"]_vars

\* C6: the counter equals the number of transfers issued and not yet
\* completed or failed (one increment per issue, one decrement per completion
\* or failure) and is never negative.
C6_CounterCountsOutstanding ==
    /\ sendDataReqCnt = Cardinality(TxOutstanding)
    /\ sendDataReqCnt = outCnt - inCnt
    /\ sendDataReqCnt >= 0

\* C6 witness: a transfer has failed while another one is still outstanding.
C6_Witness ==
    /\ \E t \in TxCalls : tpc[t] = "rejected"
    /\ \E t \in TxCalls : tpc[t] = "transfer"

\* C7: a call with allowDrop=true made while the counter equals the maximum
\* rejects at once ('packet dropped'), issues no transfer and leaves the
\* counter unchanged.
C7_DropOnFull ==
    [][\A t \in TxCalls :
         (/\ tpc[t] = "idle"
          /\ tpc'[t] # "idle"
          /\ allowDrop'[t]
          /\ sendDataReqCnt = MAX_SEND_DATA_REQUEST)
         => /\ tpc'[t] = "dropped"
            /\ sendDataReqCnt' = sendDataReqCnt
            /\ outCnt' = outCnt
            /\ \A u \in TxCalls : tpc'[u] = "transfer" => tpc[u] = "transfer"]_vars

\* C7 witness: a call has been dropped with the counter at the maximum.
C7_Witness ==
    \E t \in TxCalls :
        /\ tpc[t] = "dropped"
        /\ allowDrop[t]
        /\ sendDataReqCnt = MAX_SEND_DATA_REQUEST

\* the streaming calls that have set PENDING and have not yet got their reply
StreamingInProgress ==
    {c \in DOMAIN cpc : isStreamingCmd(cmd[c]) /\ cpc[c] \in {"pending_set", "reply"}}

\* C8: at most one streaming command is between setting PENDING and receiving
\* its reply at any time.
C8_OneStreamingCommandPending == Cardinality(StreamingInProgress) <= 1

\* C9: when a streaming command that has set PENDING fails, the stream status
\* becomes INVALID.
C9_FailureSetsInvalid ==
    [][\A c \in DOMAIN cpc :
         (cpc[c] = "reply" /\ cpc'[c] = "done_throw" /\ isStreamingCmd(cmd[c]))
         => streamStatus' = "INVALID"]_vars

\* C10: after a successful reply the stream status is PREPARED for
\* START_STREAMING, STOPPED for STOP_STREAMING and STARTED for the
\* zero-parameter CONTROL_STREAMING.
C10_StatusAfterSuccess ==
    [][\A c \in DOMAIN cpc :
         (cpc[c] = "reply" /\ cpc'[c] = "done_data")
         => /\ cmd[c] = "START_STREAMING" => streamStatus' = "PREPARED"
            /\ cmd[c] = "STOP_STREAMING" => streamStatus' = "STOPPED"
            /\ cmd[c] = "CONTROL_STREAMING" => streamStatus' = "STARTED"
            /\ cmd[c] = "OTHER" => streamStatus' = streamStatus]_vars

\* C10 witness: a START_STREAMING command has got its successful reply and
\* the status is PREPARED.
C10_Witness ==
    \E c \in DOMAIN cpc :
        /\ cmd[c] = "START_STREAMING"
        /\ cpc[c] = "done_data"
        /\ replied[c] = "ok"
        /\ streamStatus = "PREPARED"

\* C11: a streaming command that reads a status equal to its target (PREPARED
\* for START_STREAMING, STOPPED for STOP_STREAMING, STARTED for
\* CONTROL_STREAMING) returns the empty result, sends nothing on the wire and
\* leaves the status unchanged.
C11_SkipWhenInTarget ==
    [][\A c \in DOMAIN cpc :
         (/\ cpc[c] = "check"
          /\ cpc'[c] # "check"
          /\ \/ obs[c] = "PREPARED" /\ cmd[c] = "START_STREAMING"
             \/ obs[c] = "STOPPED" /\ cmd[c] = "STOP_STREAMING"
             \/ obs[c] = "STARTED" /\ cmd[c] = "CONTROL_STREAMING")
         => /\ cpc'[c] = "done_empty"
            /\ streamStatus' = streamStatus
            /\ sent' = sent
            /\ issued' = issued
            /\ commands' = commands]_vars

\* C11 witness: START_STREAMING has returned the empty result from the
\* PREPARED status without any request having been sent.
C11_Witness ==
    \E c \in DOMAIN cpc :
        /\ cmd[c] = "START_STREAMING"
        /\ cpc[c] = "done_empty"
        /\ streamStatus = "PREPARED"
        /\ sent = <<>>

\* C12: for every key, two wire commands sent by debounced setParameter calls
\* (at once or by the timer) are at least SET_PARAMETER_TIMEOUT apart.
C12_OneSendPerWindow ==
    \A i, j \in 1..Len(parmSent) :
        (/\ i < j
         /\ parmSent[i].key = parmSent[j].key
         /\ parmSent[i].debounced
         /\ parmSent[j].debounced)
        => parmSent[j].at - parmSent[i].at >= SET_PARAMETER_TIMEOUT

\* C13: the wire command sent when the timer of a key fires carries the
\* arguments of the last debounced call for that key that was deferred.
C13_LastDeferredWins ==
    [][\A k \in ParmKeys :
         (/\ changeParmTimers[k] # NoEntry
          /\ changeParmTimers[k].timer # NoTimer
          /\ changeParmTimers'[k].timer = NoTimer)
         => parmSent'[Len(parmSent')].args = lastDeferred[k]]_vars

\* C14: each id allocated is not in the pending map, and no two requests
\* that are outstanding at the same time carry the same id.
C14_FreshCorrelationId ==
    [][\A k \in (Len(requests) + 1)..Len(requests') :
         /\ promiseMap[requests'[k].id] = Undefined
         /\ \A j \in 1..Len(requests') :
               (j # k /\ requests'[j].st = "pending")
               => requests'[j].id # requests'[k].id]_vars

\* C14 witness: after a restart, requests posted to two different workers are
\* outstanding at the same time.
C14_Witness ==
    \E i, j \in 1..Len(requests) :
        /\ requests[i].st = "pending"
        /\ requests[j].st = "pending"
        /\ requests[i].to # requests[j].to
        /\ restarts > 0

\* a message of arbitrary content whose id matches no entry of the map (or
\* that has no id) has been handled in this step
UnmatchedMessageStep ==
    /\ strayCnt' # strayCnt
    /\ getPromise(lastMsg'.id) = Undefined

\* C15: a response whose id matches no outstanding request (or that carries
\* no id) settles no pending request and changes no other state of the
\* manager.
C15_UnknownIdDropped ==
    [][UnmatchedMessageStep
       => UNCHANGED <<worker, workers, listening, terminated, promiseMapId, promiseMap,
                      requests, openWait>>]_vars

\* C15 (amended): such a response settles no request and leaves the map
\* unchanged; it changes nothing else unless its type is STOP, which
\* terminates the current worker and clears the manager's reference to it.
C15_UnknownIdSettlesNothing ==
    [][UnmatchedMessageStep
       => /\ UNCHANGED <<workers, promiseMapId, promiseMap, requests, openWait>>
          /\ lastMsg'.type # "STOP" => UNCHANGED <<worker, listening, terminated>>
          /\ lastMsg'.type = "STOP"
             => /\ worker' = Undefined
                /\ worker # Undefined
                   => worker \in terminated' /\ worker \notin listening']_vars

\* C15 witness: a STOP message without id has been handled while the START
\* request was outstanding; the worker is gone and the request still pending.
C15_Witness ==
    /\ strayCnt > 0
    /\ lastMsg.type = "STOP"
    /\ lastMsg.id = Undefined
    /\ worker = Undefined
    /\ requests[1].st = "pending"
    /\ promiseMap[requests[1].id] = 1

\* C16: whatever the type and res of a response, an entry leaves the map only
\* when its continuation has been resolved or rejected, and no entry of a
\* settled continuation stays in the map.
C16_DeleteOnSettle ==
    [][\A id \in 1..MaxId :
         /\ (promiseMap[id] # Undefined /\ promiseMap'[id] = Undefined)
            => requests'[promiseMap[id]].st # "pending"
         /\ promiseMap'[id] # Undefined
            => requests'[promiseMap'[id]].st = "pending"]_vars

C18_SupersededOpenNeverResolved ==
    [][\A i \in 1..Len(requests) :
         (requests[i].type = "OPEN" /\ requests[i].st = "pending")
         => /\ requests[i].to < workers => requests'[i].st # "resolved"
            /\ requests'[i].st = "resolved" => requests'[i].by = requests[i].to]_vars

\* C19: startWorker posts STOP to the previous worker and, without waiting
\* for a message, creates a worker and posts START to it; a START request is
\* settled only by the START response of the worker it was posted to,
\* resolved when res is ok and rejected when it is error.
C19_StartWorkerHandshake ==
    [][/\ restarts' # restarts
          => /\ worker' = workers + 1
             /\ worker' \in listening'
             /\ delivered' = delivered
             /\ requests'[Len(requests')] =
                   [id |-> promiseMapId', type |-> "START", to |-> worker',
                    st |-> "pending", by |-> Undefined]
             /\ wposted'[worker'] = <<[type |-> "START", id |-> promiseMapId']>>
             /\ worker # Undefined
                => /\ Len(wposted'[worker]) = Len(wposted[worker]) + 1
                   /\ wposted'[worker][Len(wposted'[worker])].type = "STOP"
       /\ \A i \in 1..Len(requests) :
             (requests[i].type = "START" /\ requests[i].st = "pending"
                /\ requests'[i].st # "pending")
             => /\ delivered'[requests[i].to] = delivered[requests[i].to] + 1
                /\ lastMsg'.from = requests[i].to
                /\ lastMsg'.type = "START"
                /\ lastMsg'.id = requests[i].id
                /\ lastMsg'.res = "ok" => requests'[i].st = "resolved"
                /\ lastMsg'.res = "error" => requests'[i].st = "rejected"]_vars

\* C19 witness: the START request of a restart has been resolved by the new
\* worker while the STOP request of the same restart is still outstanding.
C19_Witness ==
    \E i, j \in 1..Len(requests) :
        /\ requests[i].type = "START"
        /\ requests[i].to = 2
        /\ requests[i].st = "resolved"
        /\ requests[j].type = "STOP"
        /\ requests[j].st = "pending"

\* the responses worker w has posted that carry the id of its k-th request
responsesTo(w, k) ==
    {n \in 1..Len(wlog[w]) : wlog[w][n].id = wposted[w][k].id}

\* C20: a worker has posted exactly one response for every request whose
\* handler has finished, none for a request whose handler still awaits or
\* that it has not received; the response carries the request's id and type
\* and a res of ok or error.
C20_OneResponsePerRequest ==
    \A w \in WorkerIds :
        \A k \in 1..Len(wposted[w]) :
            IF k <= taken[w] /\ k \notin busy[w]
            THEN /\ Cardinality(responsesTo(w, k)) = 1
                 /\ \A n \in responsesTo(w, k) :
                       /\ wlog[w][n].type = wposted[w][k].type
                       /\ wlog[w][n].res \in {"ok", "error"}
            ELSE responsesTo(w, k) = {}

\* C20 witness: a worker has answered a request it awaited with an error and
\* has answered a STOP request at once.
C20_Witness ==
    \E w \in WorkerIds :
        /\ \E n \in 1..Len(wlog[w]) :
              wlog[w][n].type = "SEND_COMMAND" /\ wlog[w][n].res = "error"
        /\ \E n \in 1..Len(wlog[w]) : wlog[w][n].type = "STOP"

\* the step handles a newly arrived message of the given type
Arrives(type) == hcount' = hcount + 1 /\ lastReq'.type = type

\* the sessions that have been opened and not yet closed
OpenSessions == {i \in 1..Len(sessions) : sessions[i].st = "open"}

\* C21: a request whose type is not in the catalog is answered, in the step
\* that receives it, by exactly one error response carrying the request's own
\* type and id, whether or not the device manager is defined and whatever
\* fd the message carries.
C21_UnknownTypeError ==
    [][Arrives("FOO") =>
         /\ Len(hposted') = 1
         /\ hposted'[1].type = "FOO"
         /\ hposted'[1].id = hcount + 1
         /\ hposted'[1].res = "error"]_vars

\* an unknown type reached the default branch of the switch: the manager is
\* defined and the fd names an open slot
C21_Witness ==
    /\ lastReq.type = "FOO"
    /\ webUsbDeviceManager
    /\ getDevice(lastReq.fd) # Undefined
    /\ Len(hposted) = 1
    /\ hposted[1].id = lastReq.id
    /\ hposted[1].res = "error"

\* C22: no two sessions that have been opened and not yet closed have the
\* same handle.
C22_UniqueHandles ==
    \A i, j \in OpenSessions : i # j => sessions[i].fd # sessions[j].fd

\* C23: an open that creates a session gives it the lowest-index undefined
\* slot of the registry, or slot 0 when no slot is undefined; the session's
\* handle is that slot's index, the slot holds the session and no other
\* slot changes.
C23_LowestFreeSlotElseZero ==
    [][Len(sessions') = Len(sessions) + 1 =>
         LET free == {i \in 0..(Len(webUsbDevices) - 1) : webUsbDevices[i + 1] = Undefined}
             expected == IF free = {} THEN 0 ELSE CHOOSE i \in free : \A j \in free : i <= j
             n == Len(sessions')
         IN /\ sessions'[n].fd = expected
            /\ Len(webUsbDevices') = IF Len(webUsbDevices) = 0 THEN 1 ELSE Len(webUsbDevices)
            /\ webUsbDevices'[expected + 1] = n
            /\ \A i \in 1..Len(webUsbDevices) :
                  i # expected + 1 => webUsbDevices'[i] = webUsbDevices[i]]_vars

\* the slot freed by the close of the first session was given to the session
\* the next open created
C23_Witness ==
    /\ Len(sessions) = 2
    /\ sessions[1].st = "closed"
    /\ sessions[2].fd = 0
    /\ sessions[2].st = "open"
    /\ webUsbDevices = <<2>>

\* C24: opening an identity that has an open session answers with that
\* session's handle, creates no session and changes no slot.
C24_ReopenReturnsExisting ==
    [][\A i \in OpenSessions :
         (Arrives("OPEN") /\ lastReq'.dev = sessions[i].dev) =>
            /\ sessions' = sessions
            /\ webUsbDevices' = webUsbDevices
            /\ hposted' = <<sendResponse(lastReq', "ok", sessions[i].fd)>>]_vars

\* C25: once close() has completed, the session's USB listeners are removed,
\* its command queue is empty and its handle is -1, whatever requests were
\* queued or in flight when close() was called.
C25_ClosedSessionIsClean ==
    closePc = "done" => (~observers /\ isEmpty(commands) /\ sfd = -1)

\* close() has completed although, when it was called, one request was in
\* flight and others were queued behind it: the native call is still in
\* progress and the queued requests were dropped unsettled
C25_Witness ==
    /\ closePc = "done"
    /\ Len(sent) = NumCmds
    /\ Len(issued) = 1
    /\ \E p \in CmdReqs : pool[p].pc = "ccall"
    /\ \A c \in CmdReqs : settled[c] = "pending"

\* the decodes that succeeded, and the pairs of them with no successful
\* decode in between
Decoded == {k \in 1..Len(rxLog) : rxLog[k].ok}
Successive == {p \in Decoded \X Decoded :
                  p[1] < p[2] /\ \A k \in Decoded : ~(p[1] < k /\ k < p[2])}

\* C26 as stated: in either variant the timestamps of successively decoded
\* RX packets never decrease.
C26_TimestampsNonDecreasing ==
    \A p \in Successive : rxLog[p[1]].timestamp <= rxLog[p[2]].timestamp

\* C26: in variant A the timestamps of successively decoded RX packets never
\* decrease; in variant B the timestamp of a result is the one in the first
\* header of its buffer, and a buffer with enough samples is decoded
\* whatever its timestamp, a timestamp below the preceding one included.
C26_RunningTimestampNonDecreasing ==
    /\ variant = "A" => \A p \in Successive : rxLog[p[1]].timestamp <= rxLog[p[2]].timestamp
    /\ variant = "B" =>
          \A k \in 1..Len(rxLog) :
             rxLog[k].recv >= rxLog[k].req =>
                (rxLog[k].ok /\ rxLog[k].timestamp = rxLog[k].first)

\* variant B decoded two buffers in a row, the second with a lower timestamp
C26_Witness ==
    /\ variant = "B"
    /\ Len(rxLog) = 2
    /\ rxLog[1].ok /\ rxLog[2].ok
    /\ rxLog[2].timestamp < rxLog[1].timestamp

\* C27 as stated: in either variant a successful decode returns the
\* timestamp of the preceding successful decode plus that decode's sample
\* count plus its own overrun times its own sample count (with zero overrun:
\* exactly the first timestamp plus the first packet's sample count).
C27_TimestampContinuity ==
    \A p \in Successive :
       rxLog[p[2]].timestamp = rxLog[p[1]].timestamp + rxLog[p[1]].samples
                               + rxLog[p[2]].overrun * rxLog[p[2]].samples

\* C27: variant A keeps a running timestamp, starting at 0: a successful
\* decode adds overrun * sampleCount, returns it, and adds sampleCount; a
\* rejected decode leaves it alone.  Variant B keeps no running timestamp:
\* a successful decode returns the timestamp of the first header of the
\* buffer and remembers it as the last received timestamp.
C27_VariantATimestampLaw ==
    /\ variant = "A" =>
          /\ \A p \in Successive :
                rxLog[p[2]].timestamp = rxLog[p[1]].timestamp + rxLog[p[1]].samples
                                        + rxLog[p[2]].overrun * rxLog[p[2]].samples
          /\ \A k \in Decoded :
                /\ (\A j \in Decoded : k <= j) =>
                      rxLog[k].timestamp = rxLog[k].overrun * rxLog[k].samples
                /\ (\A j \in Decoded : j <= k) =>
                      timestamp = rxLog[k].timestamp + rxLog[k].samples
          /\ Decoded = {} => timestamp = 0
    /\ variant = "B" =>
          /\ \A k \in Decoded :
                /\ rxLog[k].timestamp = rxLog[k].first
                /\ (\A j \in Decoded : j <= k) => lastRecvTimestamp = rxLog[k].first
          /\ Decoded = {} => lastRecvTimestamp = 0

\* variant A decoded two packets in a row, the first after an overrun, the
\* second with none: the second timestamp is the first plus the first count
C27_Witness ==
    /\ variant = "A"
    /\ Len(rxLog) = 2
    /\ rxLog[1].ok /\ rxLog[2].ok
    /\ rxLog[1].overrun > 0
    /\ rxLog[2].overrun = 0
    /\ rxLog[2].timestamp = rxLog[1].timestamp + rxLog[1].samples

\* C28 as stated: variant B decodes a buffer that holds fewer samples than
\* were requested and returns the samples received.
C28_ShortfallTolerated ==
    variant = "B" =>
       \A k \in 1..Len(rxLog) :
          rxLog[k].recv < rxLog[k].req => (rxLog[k].ok /\ rxLog[k].samples = rxLog[k].recv)

\* C28: variant B decodes a buffer exactly when it holds at least as many
\* samples as were requested, and then reports all the samples received,
\* which can be more than were requested; a buffer with fewer is rejected.
C28_ExcessTolerated ==
    variant = "B" =>
       \A k \in 1..Len(rxLog) :
          /\ rxLog[k].ok <=> rxLog[k].recv >= rxLog[k].req
          /\ rxLog[k].ok => rxLog[k].samples = rxLog[k].recv

\* variant B decoded a buffer with a partial last sub-packet that held more
\* samples than were requested, and rejected one that held fewer
C28_Witness ==
    /\ variant = "B"
    /\ Len(rxLog) = 2
    /\ rxLog[1].ok /\ rxLog[1].samples > rxLog[1].req
    /\ ~rxLog[2].ok /\ rxLog[2].recv < rxLog[2].req

\* C29: in either variant the RX and TX packet sizes do not decrease when the
\* sample count grows, are at least the 16-byte header, and variant A's RX
\* size is at most the maximum packet size plus the fixed margin.
C29_PacketSizeMonotone ==
    \A s \in DOMAIN sizes, t \in DOMAIN sizes :
       /\ s <= t => (sizes[s].rx <= sizes[t].rx /\ sizes[s].tx <= sizes[t].tx)
       /\ sizes[s].rx >= HEADER_SIZE
       /\ sizes[s].tx >= HEADER_SIZE
       /\ variant = "A" => sizes[s].rx <= MAX_PACKET_SIZE + EXTRA_RX_DATA

\* the sample counts of the variant's valid range
ValidHeaderSamples(v, samples) ==
    IF v = "A" THEN samples >= MIN_SAMPLES_IN_PKT /\ samples <= MAX_SAMPLES_IN_PKT
    ELSE samples % 4 = 0 /\ samples <= SAMPLES_PER_PACKET

\* C30: for a sample count of the variant's valid range and any 64-bit
\* timestamp, _fillHeader writes a header from which the sample count reads
\* back unchanged and the timestamp reads back truncated to 48 bits
\* (variant A) or whole (variant B).
C30_HeaderRoundTrip ==
    (hdr.called /\ ValidHeaderSamples(variant, hdr.samples)) =>
       /\ ~hdr.thrown
       /\ readHeader(variant, hdr.buf).samples = hdr.samples
       /\ readHeader(variant, hdr.buf).ts =
             IF variant = "A" THEN <<hdr.ts[1], hdr.ts[2], hdr.ts[3]>> ELSE hdr.ts

\* variant A wrote the header of a full packet with the discard flag and a
\* timestamp that does not fit in 48 bits
C30_Witness ==
    /\ variant = "A"
    /\ hdr.called /\ ~hdr.thrown
    /\ hdr.flag
    /\ hdr.samples = MAX_SAMPLES_IN_PKT
    /\ hdr.ts[4] = 65535
    /\ readHeader(variant, hdr.buf).samples = MAX_SAMPLES_IN_PKT

\* a response or message of worker w, which is not the current worker, has
\* been handled by the manager's listener in this step
SupersededMessageStep(w) ==
    /\ delivered'[w] # delivered[w]
    /\ worker # Undefined
    /\ w # worker

\* C37: after startWorker has replaced the worker, handling a message of a
\* superseded worker (its reply to STOP included) does not terminate the
\* current worker, does not clear the current-worker reference and settles
\* no request that was posted to the current worker.
C37_SupersededMessageHarmless ==
    [][\A w \in WorkerIds :
         SupersededMessageStep(w) =>
            /\ worker' = worker
            /\ worker \notin terminated'
            /\ \A i \in 1..Len(requests) :
                  (requests[i].to = worker /\ requests[i].st = "pending")
                  => requests'[i].st = "pending"]_vars

\* C39: an OPEN of an identity that has no constructor is answered with an
\* error, creates no session, and every open session that getDevice returned
\* under its handle before the request is still returned under it afterwards.
C39_UnsupportedOpenKeepsRegistry ==
    [][(Arrives("OPEN") /\ webUsbDeviceManager /\ ~inWebUsbMap(lastReq'.dev)) =>
         /\ hposted' = <<sendResponse(lastReq', "error", -1)>>
         /\ sessions' = sessions
         /\ \A i \in OpenSessions :
               getDevice(sessions[i].fd) = i => getDevice(sessions[i].fd)' = i]_vars

\* the first n elements of the sequence
takeFirst(seq, n) == SubSeq(seq, 1, n)

\* an ideal deque of capacity RingLen as a sequence, front first: a push onto
\* a full deque first evicts the element at the opposite end, a pop of
\* n >= size empties it, a pop of n < 1 changes nothing
idealDeque(seq, op, arg) ==
    CASE op = "push_back" ->
            Append(IF Len(seq) = RingLen THEN Tail(seq) ELSE seq, arg)
      [] op = "push_front" ->
            <<arg>> \o (IF Len(seq) = RingLen THEN takeFirst(seq, RingLen - 1) ELSE seq)
      [] op = "pop_front" ->
            IF arg < 1 THEN seq
            ELSE IF arg >= Len(seq) THEN <<>>
            ELSE SubSeq(seq, arg + 1, Len(seq))
      [] op = "pop_back" ->
            IF arg < 1 THEN seq
            ELSE IF arg >= Len(seq) THEN <<>>
            ELSE takeFirst(seq, Len(seq) - arg)
      [] op = "clear" -> <<>>

\* C40: the CircularBuffer starts empty, its size() stays within
\* 0..capacity, and every push_back, push_front, pop_front(n), pop_back(n)
\* and clear changes the contents read front-to-back exactly as the same
\* operation changes an ideal deque of the same capacity holding the same
\* contents.
C40_RingRefinesDeque ==
    /\ contents(ring) = <<>>
    /\ [][/\ contents(ring') = idealDeque(contents(ring), ringOp'.op, ringOp'.arg)
          /\ size(ring') \in 0..RingLen
          /\ size(ring') = Len(contents(ring'))]_ringVars

\* a push_front onto a full buffer whose head is not at index 0 evicted the
\* element at the back
C40_Witness ==
    /\ ringOp = [op |-> "push_front", arg |-> 2]
    /\ ring.full
    /\ ring.head # 0
    /\ contents(ring) = <<2, 1, 1>>

\* C38: every request serialised for the wire is the catalog template of the
\* command overlaid with the args and ext_args of the call it was issued
\* for, and with nothing else.
C38_WireRequestIsOwnOverlay ==
    \A i \in 1..Len(wire) :
        wire[i] = getRequest(FLASH_WRITE, callArgs[issued[i]].args, callArgs[issued[i]].ext_args)

\* C35: a command that has been sent and is not settled when close() has
\* been called is eventually settled.
C35_CloseSettlesCommands ==
    \A c \in CmdReqs :
        (closePc # "none" /\ c <= Len(sent) /\ settled[c] = "pending") ~> (settled[c] # "pending")

\* every sendCommand call made so far has had its promise resolved or rejected
AllSentSettled == \A c \in 1..Len(sent) : settled[c] # "pending"

\* C34: when every native call returns, the promise of every sendCommand
\* call is eventually resolved or rejected, whatever the number of commands
\* pending at once: at any time, eventually every call made so far is
\* settled (the calls of a behaviour are finitely many).
C34_EveryCommandSettles == []<>AllSentSettled

\* C33: a sendTxRawPacket call that is suspended at capacity together with
\* another suspended call eventually issues its transfer, when every issued
\* transfer completes or fails.
C33_EveryWaiterIssues ==
    \A t \in TxCalls :
        (tpc[t] = "waiting" /\ \E u \in TxCalls \ {t} : tpc[u] = "waiting")
        ~> (tpc[t] \in {"transfer", "resolved", "rejected"})

\* C36: whenever the stream status is PENDING it eventually leaves PENDING
\* (every wire command completes or fails), and a call that polls on
\* PENDING eventually stops polling.
C36_PendingIsTransitional ==
    /\ (streamStatus = "PENDING") ~> (streamStatus # "PENDING")
    /\ \A c \in Callers : (cpc[c] \in {"poll", "sleep"}) ~> (cpc[c] \notin {"poll", "sleep"})

\* the chunk size S of the encoder: the caller's slice size, by default the
\* whole buffer, in variant A; 1020 in variant B
ChunkSize ==
    IF variant = "A"
    THEN (IF encoded.slice = 0 THEN encoded.samplesCnt ELSE encoded.slice)
    ELSE SAMPLES_PER_PACKET

\* ceil(N / S) for the encoded buffer
ChunkCount ==
    IF encoded.samplesCnt = 0 THEN 0
    ELSE (encoded.samplesCnt + ChunkSize - 1) \div ChunkSize

\* the fields read back from the k-th header of the encoded buffer
HeaderRead(k) == readHeader(variant, encoded.headers[k].buf)

\* the timestamp ts of a header plus n, in the width of the header's field
HeaderTsPlus(ts, n) ==
    IF Len(ts) = 3
    THEN SubSeq(addTimestamp(ts \o <<0>>, n), 1, 3)
    ELSE addTimestamp(ts, n)

\* C31: an encodeTxData call that returns has written ceil(N/S) headers, one
\* at the start of each chunk; every header declares S samples and the last
\* one the rest, and the timestamp of each header is the previous header's
\* plus S (in the width of the header's timestamp field), the first one
\* being the buffer's timestamp.
C31_EncodeChunks ==
    (encoded.called /\ ~encoded.thrown) =>
       /\ Len(encoded.headers) = ChunkCount
       /\ \A k \in 1..Len(encoded.headers) :
             /\ encoded.headers[k].offset = (k - 1) * (HEADER_SIZE + ChunkSize * COMPLEX_INT16_SIZE)
             /\ HeaderRead(k).samples =
                   IF k < ChunkCount THEN ChunkSize
                   ELSE encoded.samplesCnt - (ChunkCount - 1) * ChunkSize
             /\ HeaderRead(k).ts =
                   IF k = 1 THEN HeaderTsPlus(HeaderRead(1).ts, 0)
                   ELSE HeaderTsPlus(HeaderRead(k - 1).ts, ChunkSize)
       /\ ChunkCount > 0 =>
             HeaderRead(1).ts = SubSeq(encoded.ts, 1, Len(HeaderRead(1).ts))

\* variant A encoded 512 samples in slices of 256: two headers of 256
\* samples, the second at offset 16 + 1024 with the timestamp carried out of
\* the low words
C31_Witness ==
    /\ variant = "A"
    /\ encoded.called /\ ~encoded.thrown
    /\ encoded.samplesCnt = 512
    /\ encoded.slice = 256
    /\ encoded.ts = <<65535, 65535, 65535, 0>>
    /\ Len(encoded.headers) = 2
    /\ HeaderRead(1).samples = 256
    /\ HeaderRead(2).samples = 256
    /\ HeaderRead(2).ts = <<255, 0, 0>>

\* the sample counts of the chunks of submission e, as the claim of C31
\* splits them
SubChunks(e) ==
    LET n == txSub[e].samplesCnt
        sz == IF variant = "A" THEN (IF txSub[e].slice = 0 THEN n ELSE txSub[e].slice)
              ELSE SAMPLES_PER_PACKET
        cnt == (n + sz - 1) \div sz
    IN {IF k < cnt THEN sz ELSE n - (cnt - 1) * sz : k \in 1..cnt}

\* the header validation of submission e fails: the destination is shorter
\* than the 16-byte header, a chunk of variant A has a sample count outside
\* [128, 8192], or a chunk of variant B has one that is not a multiple of 4
HeaderValidationFails(e) ==
    \/ txSub[e].out.given /\ txSub[e].out.byteLength < HEADER_SIZE
    \/ \E c \in SubChunks(e) :
          IF variant = "A" THEN c < MIN_SAMPLES_IN_PKT \/ c > MAX_SAMPLES_IN_PKT
          ELSE c % 4 # 0

\* C32: a sendTxPacket call whose header validation fails never reaches
\* sendTxRawPacket (no transfer is issued for it), and the step that makes
\* the call leaves the outstanding-TX counter and every other field of the
\* TX pipeline unchanged.
C32_InvalidSubmissionNoIO ==
    /\ [](\A e \in 1..Len(txSub) : HeaderValidationFails(e) => txSub[e].raw = Undefined)
    /\ [][(Len(txSub') > Len(txSub) /\ HeaderValidationFails(Len(txSub))')
          => UNCHANGED txVars]_vars

\* a submission failed its header validation while a transfer of an earlier
\* submission was outstanding: the counter is still 1 and nothing was issued
\* for it, also after the transfer has ended
C32_Witness ==
    /\ Len(txSub) = 2
    /\ txSub[1].raw = 1
    /\ HeaderValidationFails(2)
    /\ txSub[2].thrown
    /\ txSub[2].raw = Undefined
    /\ sendDataReqCnt = 1
    /\ outCnt = 1
    /\ tpc[1] = "transfer"
====
